---------------------------- MODULE Spec2Model ----------------------------
(***************************************************************************)
(* Last Card rules engine (src/src/engine/rules.ts, deck.ts, types) and    *)
(* the room server's action handling (src/party/game.ts).                  *)
(*                                                                         *)
(* The engine is a set of pure functions over an immutable GameState; each *)
(* is an operator here, computed as the code computes it.  Nullable        *)
(* numbers are NULL (-1), nullable strings are "null", nullable records    *)
(* are sequences of length 0 (null) or 1.  A hand is the set of its cards  *)
(* (the cards of a deck are pairwise distinct, and the order of a hand     *)
(* only orders the enumeration of plays).                                  *)
(***************************************************************************)
EXTENDS Integers, Sequences, FiniteSets, TLC

VARIABLES
    gs,             \* the GameState value the driver holds
    steps,          \* number of state-changing calls applied so far
    turnStartSeat,  \* history: the seat that was active when turnNumber last changed
    skipResolver,   \* history: who resolved a 10 chain in this turn, and their hand then
    timer,          \* the room's TimerState (null where no room drives the engine)
    room            \* the room's participants, clock and pending callbacks
                    \* (null where connections are not followed)

vars == <<gs, steps, turnStartSeat, skipResolver, timer, room>>

---------------------------------------------------------------------------
(* Bounds of the model *)

\* cards dealt to each seat at setup (INITIAL_HAND_SIZE is 7 in the code)
HandSize == 3

\* largest count passed to applyDraw by a direct caller
MaxDrawCount == 1

\* number of state-changing transitions explored from setup
MaxSteps == 5

\* number of state-changing messages and timeouts the room handles from start
RoomMaxSteps == 4

\* number of distinct values Math.random returns in a recycle shuffle
RngLevels == 2

\* largest seat count explored (the code allows 2..4)
MaxPlayers == 3

---------------------------------------------------------------------------
(* Cards and deck: deck.ts *)

NULL == -1

\* the sub-deck the model plays with: every special rank, one plain rank
SUITS == <<"hearts", "clubs">>

RANKS == <<"A", "2", "3", "5", "7", "10">>

AllSuits == {"hearts", "diamonds", "clubs", "spades"}

Card(r, s) == [rank |-> r, suit |-> s]

\* for (const suit of SUITS) for (const rank of RANKS) deck.push({rank, suit})
createDeck ==
    [k \in 1..(Len(SUITS) * Len(RANKS)) |->
        Card(RANKS[((k - 1) % Len(RANKS)) + 1], SUITS[((k - 1) \div Len(RANKS)) + 1])]

Cards == {createDeck[k] : k \in 1..Len(createDeck)}

Range(seq) == {seq[i] : i \in 1..Len(seq)}

\* [result[i], result[j]] = [result[j], result[i]] on 0-based positions
Swap(arr, i, j) ==
    [k \in 1..Len(arr) |->
        IF k = i + 1 THEN arr[j + 1] ELSE IF k = j + 1 THEN arr[i + 1] ELSE arr[k]]

\* an rng is given by the indexes floor(rng() * (i + 1)) it yields to a
\* shuffle of n items: rng[i] in 0..i for every i in 1..n-1
RECURSIVE FisherYates(_, _, _)
FisherYates(arr, i, rng) ==
    IF i <= 0 THEN arr ELSE FisherYates(Swap(arr, i, rng[i]), i - 1, rng)

\* Fisher-Yates: for (i = length - 1; i > 0; i--) swap(i, floor(rng() * (i + 1)))
shuffle(array, rng) == FisherYates(array, Len(array) - 1, rng)

createShuffledDeck(rng) == shuffle(createDeck, rng)

---------------------------------------------------------------------------
(* Queries: rules.ts *)

PlayerIds(state) == DOMAIN state.players

PlayerCount(state) == Cardinality(DOMAIN state.players)

getNextPlayerIndex(state, fromIndex) ==
    IF state.direction = "CCW"
    THEN (fromIndex - 1 + PlayerCount(state)) % PlayerCount(state)
    ELSE (fromIndex + 1) % PlayerCount(state)

getTopCard(state) == state.discardPile[Len(state.discardPile)]

getTargetSuit(state) ==
    IF state.chosenSuit # "null" THEN state.chosenSuit ELSE getTopCard(state).suit

getTargetRank(state) == getTopCard(state).rank

isSpecialCard(card) == card.rank = "2" \/ card.rank = "5" \/ card.rank = "10"

\* a matching rule that knows suits only
canCardBePlayedBySuitOnly(cardToPlay, targetSuit, targetRank) ==
    cardToPlay.suit = targetSuit

canCardBePlayed(cardToPlay, targetSuit, targetRank) ==
    IF cardToPlay.rank = "A" /\ targetRank = "A"
    THEN TRUE
    ELSE cardToPlay.suit = targetSuit \/ cardToPlay.rank = targetRank

allSameRank(cards) ==
    Len(cards) = 0 \/ \A i \in 1..Len(cards) : cards[i].rank = cards[1].rank

Min(a, b) == IF a < b THEN a ELSE b

Max(a, b) == IF a > b THEN a ELSE b

\* getPermutations(combo) over getCombinations(group, size): every ordering of
\* every size-element subset of the group
Orderings(group, size) ==
    {p \in [1..size -> group] : \A i, j \in 1..size : i # j => p[i] # p[j]}

\* an Ace as last card yields one play per suit, any other last card one play
\* without chosenSuit
WithSuitChoices(perm) ==
    IF perm[Len(perm)].rank = "A"
    THEN {[cards |-> perm, chosenSuit |-> s] : s \in AllSuits}
    ELSE {[cards |-> perm, chosenSuit |-> "undefined"]}

\* a going-out check that lets any play empty the hand
wouldGoOutNever(hand, cardCount) == FALSE

\* going out constraint: hand.length - cardCount === 0
wouldGoOut(hand, cardCount) == Cardinality(hand) - cardCount = 0

SingleCardPlays(hand, targetSuit, targetRank) ==
    UNION {WithSuitChoices(<<card>>) :
        card \in {c \in hand :
            /\ canCardBePlayed(c, targetSuit, targetRank)
            /\ (~wouldGoOut(hand, 1) \/ Cardinality(hand) = 1)}}

SameRankPlays(hand, targetSuit, targetRank) ==
    UNION {UNION {WithSuitChoices(perm) :
            perm \in {p \in Orderings({c \in hand : c.rank = r}, size) :
                p[1].suit = targetSuit \/ p[1].rank = targetRank}} :
        <<r, size>> \in {rs \in Range(RANKS) \X (2..4) :
            /\ Cardinality({c \in hand : c.rank = rs[1]}) >= 2
            /\ rs[2] <= Min(Cardinality({c \in hand : c.rank = rs[1]}), 4)
            /\ ~wouldGoOut(hand, rs[2])}}

SameSuitPlays(hand, targetSuit, targetRank) ==
    UNION {UNION {WithSuitChoices(perm) :
            perm \in {p \in Orderings({c \in hand : c.suit = s}, size) :
                /\ (p[1].suit = targetSuit \/ p[1].rank = targetRank \/ p[1].rank = "A")
                /\ ~allSameRank(p)}} :
        <<s, size>> \in {ss \in Range(SUITS) \X (2..4) :
            /\ Cardinality({c \in hand : c.suit = ss[1]}) >= 2
            /\ \E c \in {d \in hand : d.suit = ss[1]} :
                  c.suit = targetSuit \/ c.rank = targetRank \/ c.rank = "A"
            /\ ss[2] <= Min(Cardinality({c \in hand : c.suit = ss[1]}), 4)
            /\ ~wouldGoOut(hand, ss[2])}}

\* an enumeration of plays that skips the check for an owed draw
getLegalPlaysWithoutDrawCheck(state, playerId) ==
    IF playerId \notin PlayerIds(state) THEN {}
    ELSE LET hand == state.players[playerId].hand
             targetSuit == getTargetSuit(state)
             targetRank == getTargetRank(state)
         IN  SingleCardPlays(hand, targetSuit, targetRank)
                \cup SameRankPlays(hand, targetSuit, targetRank)
                \cup SameSuitPlays(hand, targetSuit, targetRank)

\* the set of plays (cards in order, chosen suit) of the returned list
getLegalPlays(state, playerId) ==
    IF playerId \notin PlayerIds(state) THEN {}
    ELSE IF state.pendingEffects.forcedDrawCount > 0
            \/ state.players[playerId].lastCardPenalty THEN {}
    ELSE LET hand == state.players[playerId].hand
             targetSuit == getTargetSuit(state)
             targetRank == getTargetRank(state)
         IN  SingleCardPlays(hand, targetSuit, targetRank)
                \cup SameRankPlays(hand, targetSuit, targetRank)
                \cup SameSuitPlays(hand, targetSuit, targetRank)

\* same cards in the same order and the same chosenSuit; activateEffect is not compared
isPlayLegal(state, playerId, play) ==
    \E lp \in getLegalPlays(state, playerId) :
        lp.cards = play.cards /\ lp.chosenSuit = play.chosenSuit

---------------------------------------------------------------------------
(* Setup: initializeGame *)

None == << >>

Some(x) == <<x>>

NewPlayer(hand) ==
    [hand |-> hand, declaredLastCard |-> FALSE, lastCardPenalty |-> FALSE]

\* hands are deck.splice(0, INITIAL_HAND_SIZE) in seat order, the first
\* discard is deck.pop(), the draw pile is what remains
initializeGame(playerCount, rng) ==
    LET deck == createShuffledDeck(rng)
        rest == SubSeq(deck, playerCount * HandSize + 1, Len(deck))
    IN  [players |-> [i \in 0..(playerCount - 1) |->
                        NewPlayer({deck[k] : k \in (i * HandSize + 1)..((i + 1) * HandSize)})],
         currentPlayerIndex |-> 0,
         drawPile |-> SubSeq(rest, 1, Len(rest) - 1),
         discardPile |-> <<rest[Len(rest)]>>,
         chosenSuit |-> "null",
         pendingEffects |-> [forcedDrawCount |-> 0, skipNextPlayer |-> FALSE],
         turnPhase |-> "waiting",
         winner |-> NULL,
         lastPlayWasSpecial |-> FALSE,
         direction |-> "CW",
         responsePhase |-> "null",
         responseChainRank |-> "null",
         respondingPlayerIndex |-> NULL,
         sevenDispute |-> None,
         lastCardClaim |-> None,
         turnNumber |-> 0,
         jackResponse |-> None,
         aceResponse |-> None]

---------------------------------------------------------------------------
(* Turn and penalty state machine *)

\* the ranks of the play in order, as the switch over play.cards sees them
SpecialIndexes(cards) == {i \in 1..Len(cards) : isSpecialCard(cards[i])}

\* a count that notes a rank once however often it is played
CountRankOnce(cards, r) == IF \E i \in 1..Len(cards) : cards[i].rank = r THEN 1 ELSE 0

CountRank(cards, r) == Cardinality({i \in 1..Len(cards) : cards[i].rank = r})

MaxOf(S) == CHOOSE x \in S : \A y \in S : y <= x

applyPlay(state, play) ==
    LET playerId == state.currentPlayerIndex
        player == state.players[playerId]
        newHand == player.hand \ Range(play.cards)
        newDiscardPile == state.discardPile \o play.cards
        shouldActivate == play.activateEffect # "false"
        newForcedDraw ==
            IF shouldActivate
            THEN 2 * CountRank(play.cards, "2") + 5 * CountRank(play.cards, "5")
            ELSE 0
        newSkip == shouldActivate /\ CountRank(play.cards, "10") > 0
        responseChainRank ==
            IF shouldActivate /\ SpecialIndexes(play.cards) # {}
            THEN play.cards[MaxOf(SpecialIndexes(play.cards))].rank
            ELSE "null"
        hasSpecialEffect == newForcedDraw > 0 \/ newSkip
        newPlayers == [state.players EXCEPT ![playerId] =
                         [@ EXCEPT !.hand = newHand, !.lastCardPenalty = FALSE]]
        winner == IF newHand = {} THEN playerId ELSE NULL
        lastCard == play.cards[Len(play.cards)]
        newChosenSuit ==
            IF lastCard.rank = "A" /\ play.chosenSuit # "undefined"
            THEN play.chosenSuit ELSE "null"
        nextPlayerIndex == getNextPlayerIndex(state, playerId)
        shouldEnterResponsePhase == hasSpecialEffect /\ winner = NULL
    IN  IF shouldEnterResponsePhase
        THEN [state EXCEPT
                !.players = newPlayers,
                !.discardPile = newDiscardPile,
                !.chosenSuit = newChosenSuit,
                !.pendingEffects = [forcedDrawCount |-> newForcedDraw,
                                    skipNextPlayer |-> newSkip],
                !.turnPhase = "can-end",
                !.winner = winner,
                !.lastPlayWasSpecial = hasSpecialEffect,
                !.responsePhase = "responding",
                !.responseChainRank = responseChainRank,
                !.respondingPlayerIndex = nextPlayerIndex]
        ELSE [state EXCEPT
                !.players = newPlayers,
                !.discardPile = newDiscardPile,
                !.chosenSuit = newChosenSuit,
                !.pendingEffects = [forcedDrawCount |-> newForcedDraw,
                                    skipNextPlayer |-> newSkip],
                !.turnPhase = IF winner # NULL THEN "game-over" ELSE "can-end",
                !.winner = winner,
                !.lastPlayWasSpecial = hasSpecialEffect,
                !.responsePhase = "null",
                !.responseChainRank = "null",
                !.respondingPlayerIndex = NULL]

\* a draw that hands out the bottom card of the pile while the top one is removed
PoppedFromBottom(pile, k) == [i \in 1..k |-> pile[1]]

\* the cards popped off the end of a pile, in the order drawn
Popped(pile, k) == [i \in 1..k |-> pile[Len(pile) - i + 1]]

\* a draw whose recycle keeps the oldest card of the discard pile
applyDrawKeepingOldest(state, count, rng) ==
    LET playerId == state.currentPlayerIndex
        want == Max(count, 0)
        haveDraw == Len(state.drawPile)
        recycles == want > haveDraw /\ Len(state.discardPile) > 1
        topCard == state.discardPile[1]
        toShuffle == SubSeq(state.discardPile, 2, Len(state.discardPile))
        recycled == FisherYates(toShuffle, Len(toShuffle) - 1, rng)
        fromDraw == Min(want, haveDraw)
        fromRecycled == IF recycles THEN Min(want - haveDraw, Len(recycled)) ELSE 0
        drawnCards == Popped(state.drawPile, fromDraw)
                        \o (IF recycles THEN Popped(recycled, fromRecycled) ELSE << >>)
        drawPile == IF recycles
                    THEN SubSeq(recycled, 1, Len(recycled) - fromRecycled)
                    ELSE SubSeq(state.drawPile, 1, haveDraw - fromDraw)
        discardPile == IF recycles THEN <<topCard>> ELSE state.discardPile
    IN  [state EXCEPT
            !.players[playerId] =
                [@ EXCEPT !.hand = @ \cup Range(drawnCards), !.lastCardPenalty = FALSE],
            !.drawPile = drawPile,
            !.discardPile = discardPile,
            !.pendingEffects = [@ EXCEPT !.forcedDrawCount = 0],
            !.turnPhase = "can-end"]

\* the for loop of applyDraw: pop from the draw pile; on an empty draw pile
\* recycle all of the discard pile but its top (shuffled by rng) once, and
\* stop when neither pile can give a card
applyDraw(state, count, rng) ==
    LET playerId == state.currentPlayerIndex
        want == Max(count, 0)
        haveDraw == Len(state.drawPile)
        recycles == want > haveDraw /\ Len(state.discardPile) > 1
        topCard == state.discardPile[Len(state.discardPile)]
        toShuffle == SubSeq(state.discardPile, 1, Len(state.discardPile) - 1)
        recycled == FisherYates(toShuffle, Len(toShuffle) - 1, rng)
        fromDraw == Min(want, haveDraw)
        fromRecycled == IF recycles THEN Min(want - haveDraw, Len(recycled)) ELSE 0
        drawnCards == Popped(state.drawPile, fromDraw)
                        \o (IF recycles THEN Popped(recycled, fromRecycled) ELSE << >>)
        drawPile == IF recycles
                    THEN SubSeq(recycled, 1, Len(recycled) - fromRecycled)
                    ELSE SubSeq(state.drawPile, 1, haveDraw - fromDraw)
        discardPile == IF recycles THEN <<topCard>> ELSE state.discardPile
    IN  [state EXCEPT
            !.players[playerId] =
                [@ EXCEPT !.hand = @ \cup Range(drawnCards), !.lastCardPenalty = FALSE],
            !.drawPile = drawPile,
            !.discardPile = discardPile,
            !.pendingEffects = [@ EXCEPT !.forcedDrawCount = 0],
            !.turnPhase = "can-end"]

applyVoluntaryDraw(state, rng) == applyDraw(state, 1, rng)

\* a forced draw that takes the pending total whatever the penalty flag says
applyForcedDrawOfTotal(state, rng) ==
    applyDraw(state, state.pendingEffects.forcedDrawCount, rng)

applyForcedDraw(state, rng) ==
    LET player == state.players[state.currentPlayerIndex]
        count == IF player.lastCardPenalty THEN 1
                 ELSE state.pendingEffects.forcedDrawCount
    IN  applyDraw(state, count, rng)

\* a turn change that leaves a pending skip in place for the turn after
nextTurnKeepingSkip(state) ==
    IF state.winner # NULL THEN state
    ELSE
    LET firstNext == getNextPlayerIndex(state, state.currentPlayerIndex)
        nextIndex == IF state.pendingEffects.skipNextPlayer
                     THEN getNextPlayerIndex(state, firstNext) ELSE firstNext
        newTurnNumber == state.turnNumber + 1
        newLastCardClaim ==
            IF state.lastCardClaim # None
               /\ newTurnNumber > state.lastCardClaim[1].turnNumberCreated + 1
            THEN None ELSE state.lastCardClaim
        currentPlayer == state.players[state.currentPlayerIndex]
        needsLastCardPenalty ==
            /\ Cardinality(currentPlayer.hand) = 1
            /\ ~currentPlayer.declaredLastCard
            /\ ~state.lastPlayWasSpecial
        newPlayers == [state.players EXCEPT ![state.currentPlayerIndex] =
                         IF needsLastCardPenalty
                         THEN [@ EXCEPT !.lastCardPenalty = TRUE]
                         ELSE [@ EXCEPT !.declaredLastCard = FALSE]]
        nextPlayer == newPlayers[nextIndex]
        turnPhase == IF state.pendingEffects.forcedDrawCount > 0
                        \/ nextPlayer.lastCardPenalty
                     THEN "must-draw" ELSE "waiting"
    IN  [state EXCEPT
            !.players = newPlayers,
            !.currentPlayerIndex = nextIndex,
            !.turnPhase = turnPhase,
            !.lastPlayWasSpecial = FALSE,
            !.responsePhase = "null",
            !.responseChainRank = "null",
            !.respondingPlayerIndex = NULL,
            !.sevenDispute = None,
            !.lastCardClaim = newLastCardClaim,
            !.turnNumber = newTurnNumber,
            !.jackResponse = None,
            !.aceResponse = None]

nextTurn(state) ==
    IF state.winner # NULL THEN state
    ELSE
    LET firstNext == getNextPlayerIndex(state, state.currentPlayerIndex)
        nextIndex == IF state.pendingEffects.skipNextPlayer
                     THEN getNextPlayerIndex(state, firstNext) ELSE firstNext
        newTurnNumber == state.turnNumber + 1
        newLastCardClaim ==
            IF state.lastCardClaim # None
               /\ newTurnNumber > state.lastCardClaim[1].turnNumberCreated + 1
            THEN None ELSE state.lastCardClaim
        currentPlayer == state.players[state.currentPlayerIndex]
        needsLastCardPenalty ==
            /\ Cardinality(currentPlayer.hand) = 1
            /\ ~currentPlayer.declaredLastCard
            /\ ~state.lastPlayWasSpecial
        newPlayers == [state.players EXCEPT ![state.currentPlayerIndex] =
                         IF needsLastCardPenalty
                         THEN [@ EXCEPT !.lastCardPenalty = TRUE]
                         ELSE [@ EXCEPT !.declaredLastCard = FALSE]]
        nextPlayer == newPlayers[nextIndex]
        turnPhase == IF state.pendingEffects.forcedDrawCount > 0
                        \/ nextPlayer.lastCardPenalty
                     THEN "must-draw" ELSE "waiting"
    IN  [state EXCEPT
            !.players = newPlayers,
            !.currentPlayerIndex = nextIndex,
            !.pendingEffects = [forcedDrawCount |-> state.pendingEffects.forcedDrawCount,
                                skipNextPlayer |-> FALSE],
            !.turnPhase = turnPhase,
            !.lastPlayWasSpecial = FALSE,
            !.responsePhase = "null",
            !.responseChainRank = "null",
            !.respondingPlayerIndex = NULL,
            !.sevenDispute = None,
            !.lastCardClaim = newLastCardClaim,
            !.turnNumber = newTurnNumber,
            !.jackResponse = None,
            !.aceResponse = None]

\* a hand-off that looks at the pending forced draw only
confirmHandoffWithoutPenalty(state) ==
    [state EXCEPT !.turnPhase =
        IF state.pendingEffects.forcedDrawCount > 0 THEN "must-draw" ELSE "playing"]

confirmHandoff(state) ==
    LET player == state.players[state.currentPlayerIndex]
    IN  [state EXCEPT !.turnPhase =
            IF state.pendingEffects.forcedDrawCount > 0 \/ player.lastCardPenalty
            THEN "must-draw" ELSE "playing"]

declareLastCard(state) ==
    LET playerId == state.currentPlayerIndex
    IN  [state EXCEPT
            !.players[playerId] = [@ EXCEPT !.declaredLastCard = TRUE],
            !.lastCardClaim = Some([playerId |-> playerId,
                                    turnNumberCreated |-> state.turnNumber])]

canDeclareLastCard(state, selectedCards) ==
    LET player == state.players[state.currentPlayerIndex]
    IN  /\ Cardinality(player.hand) - Len(selectedCards) = 1
        /\ ~player.declaredLastCard
        /\ ~\E i \in 1..Len(selectedCards) : isSpecialCard(selectedCards[i])

\* a count of drawable cards that takes the discard top for one
getDrawableCountWithTop(state) ==
    Len(state.drawPile) + Len(state.discardPile)

getDrawableCount(state) ==
    Len(state.drawPile) + Max(0, Len(state.discardPile) - 1)

---------------------------------------------------------------------------
(* Response chain: right of reply *)

isInResponsePhase(state) ==
    state.responsePhase = "responding" /\ state.respondingPlayerIndex # NULL

\* the cards of the chain's rank in any hand, the responder's or not
getLegalDeflectionsFromAnyHand(state) ==
    IF ~isInResponsePhase(state) THEN {}
    ELSE IF state.responseChainRank = "null" THEN {}
    ELSE {card \in UNION {state.players[i].hand : i \in DOMAIN state.players} :
            card.rank = state.responseChainRank}

getLegalDeflections(state) ==
    IF ~isInResponsePhase(state) THEN {}
    ELSE IF state.responseChainRank = "null" THEN {}
    ELSE {card \in state.players[state.respondingPlayerIndex].hand :
            card.rank = state.responseChainRank}

\* a resolve that hands the turn over and leaves the pending skip in place
applyResolveKeepingSkip(state) ==
    IF ~isInResponsePhase(state) THEN state
    ELSE [state EXCEPT
            !.currentPlayerIndex = state.respondingPlayerIndex,
            !.turnPhase = IF state.pendingEffects.forcedDrawCount > 0
                          THEN "must-draw" ELSE "waiting",
            !.responsePhase = "null",
            !.responseChainRank = "null",
            !.respondingPlayerIndex = NULL]

applyResolve(state) ==
    IF ~isInResponsePhase(state) THEN state
    ELSE [state EXCEPT
            !.currentPlayerIndex = state.respondingPlayerIndex,
            !.turnPhase = IF state.pendingEffects.forcedDrawCount > 0
                          THEN "must-draw" ELSE "waiting",
            !.responsePhase = "null",
            !.responseChainRank = "null",
            !.respondingPlayerIndex = NULL,
            !.pendingEffects = [@ EXCEPT !.skipNextPlayer = FALSE]]

\* a deflection that passes the chain on without adding to the forced draw
applyDeflectKeepingTotal(state, card) ==
    IF ~isInResponsePhase(state) THEN state
    ELSE IF card.rank # state.responseChainRank THEN state
    ELSE
    LET respondingIndex == state.respondingPlayerIndex
        newHand == state.players[respondingIndex].hand \ {card}
        common == [state EXCEPT
                     !.players[respondingIndex] = [@ EXCEPT !.hand = newHand],
                     !.discardPile = Append(state.discardPile, card),
                     !.pendingEffects = [@ EXCEPT !.skipNextPlayer =
                                            state.responseChainRank = "10"]]
    IN  IF newHand = {}
        THEN [common EXCEPT
                !.winner = respondingIndex,
                !.turnPhase = "game-over",
                !.responsePhase = "null",
                !.responseChainRank = "null",
                !.respondingPlayerIndex = NULL]
        ELSE [common EXCEPT
                !.respondingPlayerIndex = getNextPlayerIndex(state, respondingIndex)]

applyDeflect(state, card) ==
    IF ~isInResponsePhase(state) THEN state
    ELSE IF card.rank # state.responseChainRank THEN state
    ELSE
    LET respondingIndex == state.respondingPlayerIndex
        chainRank == state.responseChainRank
        newHand == state.players[respondingIndex].hand \ {card}
        newDiscardPile == Append(state.discardPile, card)
        newForcedDraw ==
            state.pendingEffects.forcedDrawCount
                + (IF card.rank = "2" THEN 2 ELSE IF card.rank = "5" THEN 5 ELSE 0)
        winner == IF newHand = {} THEN respondingIndex ELSE NULL
        common == [state EXCEPT
                     !.players[respondingIndex] = [@ EXCEPT !.hand = newHand],
                     !.discardPile = newDiscardPile,
                     !.pendingEffects = [forcedDrawCount |-> newForcedDraw,
                                         skipNextPlayer |-> chainRank = "10"]]
    IN  IF winner # NULL
        THEN [common EXCEPT
                !.winner = winner,
                !.turnPhase = "game-over",
                !.responsePhase = "null",
                !.responseChainRank = "null",
                !.respondingPlayerIndex = NULL]
        ELSE [common EXCEPT
                !.responsePhase = "responding",
                !.responseChainRank = chainRank,
                !.respondingPlayerIndex = getNextPlayerIndex(state, respondingIndex)]

applyCancel(state, card) == applyDeflect(state, card)

---------------------------------------------------------------------------
(* Seven dispute *)

isInSevenDispute(state) == state.sevenDispute # None

getEffectiveSuitForSevenCancel(state) ==
    IF state.chosenSuit # "null" THEN state.chosenSuit ELSE getTopCard(state).suit

MatchingSevens(state, playerId) ==
    {c \in state.players[playerId].hand :
        c.rank = "7" /\ c.suit = getEffectiveSuitForSevenCancel(state)}

canPlaySevenCancelEffect(state, playerId) ==
    IF ~isInResponsePhase(state) THEN FALSE
    ELSE IF state.respondingPlayerIndex # playerId THEN FALSE
    ELSE IF state.pendingEffects.forcedDrawCount = 0
            /\ ~state.pendingEffects.skipNextPlayer THEN FALSE
    ELSE MatchingSevens(state, playerId) # {}

canPlaySevenCancelLastCard(state, playerId) ==
    IF state.lastCardClaim = None THEN FALSE
    ELSE IF state.turnNumber # state.lastCardClaim[1].turnNumberCreated + 1 THEN FALSE
    ELSE IF state.currentPlayerIndex # playerId THEN FALSE
    ELSE IF state.lastCardClaim[1].playerId = playerId THEN FALSE
    ELSE MatchingSevens(state, playerId) # {}

getLegalSevenCancelsEffect(state, playerId) ==
    IF ~canPlaySevenCancelEffect(state, playerId) THEN {}
    ELSE MatchingSevens(state, playerId)

getLegalSevenCancelsLastCard(state, playerId) ==
    IF ~canPlaySevenCancelLastCard(state, playerId) THEN {}
    ELSE MatchingSevens(state, playerId)

\* a cancelling seven that wipes the pending effects as it opens the dispute
applySevenCancelEffectClearing(state, card) ==
    IF ~isInResponsePhase(state) THEN state
    ELSE IF card.rank # "7" \/ card.suit # getEffectiveSuitForSevenCancel(state) THEN state
    ELSE
    LET respondingIndex == state.respondingPlayerIndex
        newHand == state.players[respondingIndex].hand \ {card}
        attackerIndex == getNextPlayerIndex(state, respondingIndex)
        common == [state EXCEPT
                     !.players[respondingIndex] = [@ EXCEPT !.hand = newHand],
                     !.discardPile = Append(state.discardPile, card),
                     !.pendingEffects = [forcedDrawCount |-> 0, skipNextPlayer |-> FALSE],
                     !.responsePhase = "null",
                     !.responseChainRank = "null",
                     !.respondingPlayerIndex = NULL,
                     !.chosenSuit = "null"]
    IN  IF newHand = {}
        THEN [common EXCEPT
                !.winner = respondingIndex,
                !.turnPhase = "game-over",
                !.sevenDispute = None]
        ELSE [common EXCEPT
                !.turnPhase = "playing",
                !.sevenDispute =
                    Some([kind |-> "EFFECT",
                          effectSnapshot |->
                            Some([drawAmount |-> state.pendingEffects.forcedDrawCount,
                                  skip |-> state.pendingEffects.skipNextPlayer,
                                  responsiblePlayerId |-> attackerIndex]),
                          lastCardClaimPlayerId |-> NULL,
                          cancelled |-> TRUE,
                          responderPlayerId |-> attackerIndex])]

applySevenCancelEffect(state, card) ==
    IF ~isInResponsePhase(state) THEN state
    ELSE IF card.rank # "7" \/ card.suit # getEffectiveSuitForSevenCancel(state) THEN state
    ELSE
    LET respondingIndex == state.respondingPlayerIndex
        newHand == state.players[respondingIndex].hand \ {card}
        winner == IF newHand = {} THEN respondingIndex ELSE NULL
        attackerIndex == getNextPlayerIndex(state, respondingIndex)
        sevenDispute ==
            [kind |-> "EFFECT",
             effectSnapshot |->
                Some([drawAmount |-> state.pendingEffects.forcedDrawCount,
                      skip |-> state.pendingEffects.skipNextPlayer,
                      responsiblePlayerId |-> attackerIndex]),
             lastCardClaimPlayerId |-> NULL,
             cancelled |-> TRUE,
             responderPlayerId |-> attackerIndex]
        common == [state EXCEPT
                     !.players[respondingIndex] = [@ EXCEPT !.hand = newHand],
                     !.discardPile = Append(state.discardPile, card),
                     !.responsePhase = "null",
                     !.responseChainRank = "null",
                     !.respondingPlayerIndex = NULL,
                     !.chosenSuit = "null"]
    IN  IF winner # NULL
        THEN [common EXCEPT
                !.winner = winner,
                !.turnPhase = "game-over",
                !.sevenDispute = None]
        ELSE [common EXCEPT
                !.turnPhase = "playing",
                !.sevenDispute = Some(sevenDispute)]

\* a challenge of a claim that opens the dispute even from an emptied hand
applySevenCancelLastCardWithoutWin(state, card) ==
    IF state.lastCardClaim = None THEN state
    ELSE IF card.rank # "7" \/ card.suit # getEffectiveSuitForSevenCancel(state) THEN state
    ELSE
    LET playerId == state.currentPlayerIndex
    IN  [state EXCEPT
            !.players[playerId] = [@ EXCEPT !.hand = @ \ {card}],
            !.discardPile = Append(state.discardPile, card),
            !.chosenSuit = "null",
            !.turnPhase = "playing",
            !.sevenDispute =
                Some([kind |-> "LAST_CARD",
                      effectSnapshot |-> None,
                      lastCardClaimPlayerId |-> state.lastCardClaim[1].playerId,
                      cancelled |-> TRUE,
                      responderPlayerId |-> state.lastCardClaim[1].playerId])]

applySevenCancelLastCard(state, card) ==
    IF state.lastCardClaim = None THEN state
    ELSE IF card.rank # "7" \/ card.suit # getEffectiveSuitForSevenCancel(state) THEN state
    ELSE
    LET playerId == state.currentPlayerIndex
        newHand == state.players[playerId].hand \ {card}
        winner == IF newHand = {} THEN playerId ELSE NULL
        sevenDispute ==
            [kind |-> "LAST_CARD",
             effectSnapshot |-> None,
             lastCardClaimPlayerId |-> state.lastCardClaim[1].playerId,
             cancelled |-> TRUE,
             responderPlayerId |-> state.lastCardClaim[1].playerId]
        common == [state EXCEPT
                     !.players[playerId] = [@ EXCEPT !.hand = newHand],
                     !.discardPile = Append(state.discardPile, card),
                     !.chosenSuit = "null"]
    IN  IF winner # NULL
        THEN [common EXCEPT
                !.winner = winner,
                !.turnPhase = "game-over",
                !.sevenDispute = None,
                !.lastCardClaim = None]
        ELSE [common EXCEPT
                !.turnPhase = "playing",
                !.sevenDispute = Some(sevenDispute)]

getLegalSevenDisputePlays(state, playerId) ==
    IF state.sevenDispute = None THEN {}
    ELSE IF state.sevenDispute[1].responderPlayerId # playerId THEN {}
    ELSE {c \in state.players[playerId].hand : c.rank = "7"}

\* the cards the responder of the open dispute may answer with
SevenDisputePlayArgs(state) ==
    IF isInSevenDispute(state)
    THEN getLegalSevenDisputePlays(state, state.sevenDispute[1].responderPlayerId)
    ELSE {}

\* a counter-seven that passes the reply on and leaves the flag as it was
applySevenDisputePlayKeepingFlag(state, card) ==
    IF state.sevenDispute = None THEN state
    ELSE IF card.rank # "7" THEN state
    ELSE
    LET responderId == state.sevenDispute[1].responderPlayerId
        newHand == state.players[responderId].hand \ {card}
        common == [state EXCEPT
                     !.players[responderId] = [@ EXCEPT !.hand = newHand],
                     !.discardPile = Append(state.discardPile, card),
                     !.chosenSuit = "null"]
    IN  IF newHand = {}
        THEN [common EXCEPT
                !.winner = responderId,
                !.turnPhase = "game-over",
                !.sevenDispute = None,
                !.lastCardClaim = None]
        ELSE [common EXCEPT
                !.sevenDispute =
                    Some([state.sevenDispute[1] EXCEPT
                            !.responderPlayerId = getNextPlayerIndex(state, responderId)])]

applySevenDisputePlay(state, card) ==
    IF state.sevenDispute = None THEN state
    ELSE IF card.rank # "7" THEN state
    ELSE
    LET responderId == state.sevenDispute[1].responderPlayerId
        newHand == state.players[responderId].hand \ {card}
        winner == IF newHand = {} THEN responderId ELSE NULL
        common == [state EXCEPT
                     !.players[responderId] = [@ EXCEPT !.hand = newHand],
                     !.discardPile = Append(state.discardPile, card),
                     !.chosenSuit = "null"]
    IN  IF winner # NULL
        THEN [common EXCEPT
                !.winner = winner,
                !.turnPhase = "game-over",
                !.sevenDispute = None,
                !.lastCardClaim = None]
        ELSE [common EXCEPT
                !.sevenDispute =
                    Some([state.sevenDispute[1] EXCEPT
                            !.cancelled = ~state.sevenDispute[1].cancelled,
                            !.responderPlayerId = getNextPlayerIndex(state, responderId)])]

\* an accept that lets a cancelled claim stand
applySevenDisputeAcceptKeepingClaim(state) ==
    IF state.sevenDispute = None THEN state
    ELSE
    LET dispute == state.sevenDispute[1]
    IN  IF dispute.kind = "EFFECT"
        THEN IF dispute.cancelled
             THEN [state EXCEPT
                     !.pendingEffects = [forcedDrawCount |-> 0, skipNextPlayer |-> FALSE],
                     !.turnPhase = "can-end",
                     !.sevenDispute = None]
             ELSE [state EXCEPT
                     !.currentPlayerIndex = dispute.responderPlayerId,
                     !.pendingEffects =
                        IF dispute.effectSnapshot # None
                        THEN [forcedDrawCount |-> dispute.effectSnapshot[1].drawAmount,
                              skipNextPlayer |-> dispute.effectSnapshot[1].skip]
                        ELSE state.pendingEffects,
                     !.turnPhase = IF state.pendingEffects.forcedDrawCount > 0
                                   THEN "must-draw" ELSE "waiting",
                     !.sevenDispute = None]
        ELSE IF dispute.kind = "LAST_CARD"
        THEN IF dispute.cancelled
             THEN [state EXCEPT
                     !.sevenDispute = None,
                     !.turnPhase = "playing"]
             ELSE [state EXCEPT
                     !.sevenDispute = None,
                     !.turnPhase = "playing"]
        ELSE state

applySevenDisputeAccept(state) ==
    IF state.sevenDispute = None THEN state
    ELSE
    LET dispute == state.sevenDispute[1]
    IN  IF dispute.kind = "EFFECT"
        THEN IF dispute.cancelled
             THEN [state EXCEPT
                     !.pendingEffects = [forcedDrawCount |-> 0, skipNextPlayer |-> FALSE],
                     !.turnPhase = "can-end",
                     !.sevenDispute = None]
             ELSE [state EXCEPT
                     !.currentPlayerIndex = dispute.responderPlayerId,
                     !.pendingEffects =
                        IF dispute.effectSnapshot # None
                        THEN [forcedDrawCount |-> dispute.effectSnapshot[1].drawAmount,
                              skipNextPlayer |-> dispute.effectSnapshot[1].skip]
                        ELSE state.pendingEffects,
                     !.turnPhase = IF state.pendingEffects.forcedDrawCount > 0
                                   THEN "must-draw" ELSE "waiting",
                     !.sevenDispute = None]
        ELSE IF dispute.kind = "LAST_CARD"
        THEN IF dispute.cancelled
             THEN [state EXCEPT
                     !.players[dispute.lastCardClaimPlayerId] =
                        [@ EXCEPT !.declaredLastCard = FALSE],
                     !.sevenDispute = None,
                     !.lastCardClaim = None,
                     !.turnPhase = "playing"]
             ELSE [state EXCEPT
                     !.sevenDispute = None,
                     !.turnPhase = "playing"]
        ELSE state

---------------------------------------------------------------------------
(* The engine driven by any caller that passes legal cards and plays *)

\* outcomes of the setup shuffle the model starts from, each given by the
\* indexes the rng yields to the Fisher-Yates pass (i = 1 .. 11); the decks are
\*   10h 2h 3h | 7h 10c 3c | 7c 2c 5c | Ah Ac | 5h
\*   2h 3h Ac  | 2c 7c 5h  | 10h 5c 7h | 3c 10c | Ah
\*   5h 3c 7h  | 7c 5c 3h  | 2c 10h Ah | 2h Ac | 10c
SetupRngs ==
    { <<1, 2, 3, 3, 0, 6, 7, 0, 0, 6, 3>>,
      <<0, 0, 0, 0, 3, 5, 4, 4, 8, 0, 0>>,
      <<0, 1, 2, 1, 2, 5, 5, 0, 1, 6, 11>> }

ActivateChoices == {"undefined", "true", "false"}

Init ==
    /\ \E playerCount \in 2..MaxPlayers, rng \in SetupRngs :
        /\ playerCount * HandSize + 1 <= Len(createDeck)
        /\ gs = initializeGame(playerCount, rng)
    /\ steps = 0
    /\ turnStartSeat = 0
    /\ skipResolver = None
    /\ timer = None
    /\ room = None

\* applyResolve called by the responder of a chain of 10s that carries a skip
ResolvesSkip(state) ==
    /\ isInResponsePhase(state)
    /\ state.responseChainRank = "10"
    /\ state.pendingEffects.skipNextPlayer

\* the history variables follow the call: a new turn number starts a turn
\* for the seat then active and forgets the resolver of the turn before
History(resolves, newState) ==
    /\ turnStartSeat' = IF newState.turnNumber # gs.turnNumber
                        THEN newState.currentPlayerIndex ELSE turnStartSeat
    /\ skipResolver' =
          IF newState.turnNumber # gs.turnNumber THEN None
          ELSE IF resolves /\ ResolvesSkip(gs)
          THEN Some([seat |-> gs.respondingPlayerIndex,
                     hand |-> gs.players[gs.respondingPlayerIndex].hand])
          ELSE skipResolver

\* a call that returns its argument leaves everything as it was
Step(resolves, newState) ==
    /\ steps < MaxSteps
    /\ gs' = newState
    /\ steps' = IF newState = gs THEN steps ELSE steps + 1
    /\ History(resolves, newState)
    /\ UNCHANGED <<timer, room>>

\* Math.random during a recycle, bounded to the streams that return the same
\* value k / RngLevels on every call: floor(rng() * (i + 1)) for i in 1..n-1
RecycleRngs(n) ==
    {[i \in 1..(n - 1) |-> (k * (i + 1)) \div RngLevels] : k \in 0..(RngLevels - 1)}

\* the rng of a draw matters only when the draw recycles the discard pile
DrawRngs(state, count) ==
    IF count > Len(state.drawPile) /\ Len(state.discardPile) > 1
    THEN RecycleRngs(Len(state.discardPile) - 1)
    ELSE {<< >>}

ApplyPlay ==
    \E lp \in getLegalPlays(gs, gs.currentPlayerIndex), act \in ActivateChoices :
        Step(FALSE, applyPlay(gs, [cards |-> lp.cards, chosenSuit |-> lp.chosenSuit,
                                   activateEffect |-> act]))

ApplyDraw ==
    \E count \in 0..MaxDrawCount :
        \E rng \in DrawRngs(gs, count) :
            Step(FALSE, applyDraw(gs, count, rng))

ApplyVoluntaryDraw ==
    \E rng \in DrawRngs(gs, 1) :
        Step(FALSE, applyVoluntaryDraw(gs, rng))

ForcedCount(state) ==
    IF state.players[state.currentPlayerIndex].lastCardPenalty THEN 1
    ELSE state.pendingEffects.forcedDrawCount

ApplyForcedDraw ==
    \E rng \in DrawRngs(gs, ForcedCount(gs)) :
        Step(FALSE, applyForcedDraw(gs, rng))

NextTurn == Step(FALSE, nextTurn(gs))

ConfirmHandoff == Step(FALSE, confirmHandoff(gs))

DeclareLastCard == Step(FALSE, declareLastCard(gs))

ApplyResolve == Step(TRUE, applyResolve(gs))

\* applyCancel delegates to applyDeflect
ApplyDeflect ==
    \E card \in getLegalDeflections(gs) :
        Step(FALSE, applyDeflect(gs, card))

ApplySevenCancelEffect ==
    \E card \in getLegalSevenCancelsEffect(gs, gs.respondingPlayerIndex) :
        Step(FALSE, applySevenCancelEffect(gs, card))

ApplySevenCancelLastCard ==
    \E card \in getLegalSevenCancelsLastCard(gs, gs.currentPlayerIndex) :
        Step(FALSE, applySevenCancelLastCard(gs, card))

ApplySevenDisputePlay ==
    /\ isInSevenDispute(gs)
    /\ \E card \in getLegalSevenDisputePlays(gs, gs.sevenDispute[1].responderPlayerId) :
        Step(FALSE, applySevenDisputePlay(gs, card))

ApplySevenDisputeAccept == Step(FALSE, applySevenDisputeAccept(gs))

Next ==
    \/ ApplyPlay
    \/ ApplyDraw
    \/ ApplyVoluntaryDraw
    \/ ApplyForcedDraw
    \/ NextTurn
    \/ ConfirmHandoff
    \/ DeclareLastCard
    \/ ApplyResolve
    \/ ApplyDeflect
    \/ ApplySevenCancelEffect
    \/ ApplySevenCancelLastCard
    \/ ApplySevenDisputePlay
    \/ ApplySevenDisputeAccept

Spec == Init /\ [][Next]_vars

---------------------------------------------------------------------------
(* The room server: party/game.ts.  Every seat is a connected human; the   *)
(* jack_ and ace_ actions call engine functions whose bodies are not part  *)
(* of the engine source and are not among the actions sent here.           *)

isInJackResponse(state) == state.jackResponse # None

isInAceResponse(state) == state.aceResponse # None

canPlayerAct(state, playerIndex) ==
    \/ state.currentPlayerIndex = playerIndex
    \/ isInResponsePhase(state) /\ state.respondingPlayerIndex = playerIndex
    \/ isInSevenDispute(state) /\ state.sevenDispute[1].responderPlayerId = playerIndex
    \/ isInJackResponse(state) /\ state.jackResponse[1].responderPlayerId = playerIndex
    \/ isInAceResponse(state) /\ state.aceResponse[1].responderPlayerId = playerIndex

\* the timer the room holds after startTurnTimer: none once there is a
\* winner, else one for the seat that has to act
startTurnTimer(state) ==
    IF state.winner # NULL THEN None
    ELSE IF isInResponsePhase(state)
    THEN Some([playerIndex |-> state.respondingPlayerIndex, phase |-> "response"])
    ELSE IF isInSevenDispute(state)
    THEN Some([playerIndex |-> state.sevenDispute[1].responderPlayerId,
               phase |-> "response"])
    ELSE IF isInJackResponse(state)
    THEN Some([playerIndex |-> state.jackResponse[1].responderPlayerId,
               phase |-> "response"])
    ELSE IF isInAceResponse(state)
    THEN Some([playerIndex |-> state.aceResponse[1].responderPlayerId,
               phase |-> "response"])
    ELSE Some([playerIndex |-> state.currentPlayerIndex, phase |-> "turn"])

\* gs = nextTurn(gs); gs = confirmHandoff(gs)
AutoAdvance(state) == confirmHandoff(nextTurn(state))

\* the draw case takes the forced draw on the sender's penalty flag
DrawIsForced(state, playerIndex) ==
    state.pendingEffects.forcedDrawCount > 0 \/ state.players[playerIndex].lastCardPenalty

executeAction(state, playerIndex, action, rng) ==
    LET Done(g) == [success |-> TRUE, gs |-> g]
        Failed == [success |-> FALSE, gs |-> state]
    IN  CASE action.action = "play_cards" ->
                LET play == [cards |-> action.cards, chosenSuit |-> action.chosenSuit,
                             activateEffect |-> action.activateEffect]
                    played == applyPlay(state, play)
                IN  IF ~isPlayLegal(state, playerIndex, play) THEN Failed
                    ELSE IF /\ ~isInResponsePhase(played)
                            /\ ~isInJackResponse(played)
                            /\ ~isInAceResponse(played)
                            /\ played.winner = NULL
                    THEN Done(AutoAdvance(played))
                    ELSE Done(played)
          [] action.action = "draw" ->
                IF DrawIsForced(state, playerIndex)
                THEN Done(AutoAdvance(applyForcedDraw(state, rng)))
                ELSE Done(AutoAdvance(applyVoluntaryDraw(state, rng)))
          [] action.action = "end_turn" -> Done(AutoAdvance(state))
          [] action.action = "declare_last_card" -> Done(declareLastCard(state))
          [] action.action = "resolve_response" -> Done(confirmHandoff(applyResolve(state)))
          [] action.action = "deflect_response" -> Done(applyDeflect(state, action.card))
          [] action.action = "cancel_response" -> Done(applyCancel(state, action.card))
          [] action.action = "seven_cancel_effect" ->
                Done(applySevenCancelEffect(state, action.card))
          [] action.action = "seven_cancel_last_card" ->
                Done(applySevenCancelLastCard(state, action.card))
          [] action.action = "seven_dispute_play" ->
                Done(applySevenDisputePlay(state, action.card))
          [] action.action = "seven_dispute_accept" ->
                LET accepted == applySevenDisputeAccept(state)
                IN  IF ~isInSevenDispute(accepted) THEN Done(AutoAdvance(accepted))
                    ELSE Done(accepted)
          [] OTHER -> Failed

\* handleStartGame: initializeGame, then confirmHandoff for the first seat
RoomInit ==
    /\ \E playerCount \in 2..MaxPlayers, rng \in SetupRngs :
        /\ playerCount * HandSize + 1 <= Len(createDeck)
        /\ gs = confirmHandoff(initializeGame(playerCount, rng))
    /\ steps = 0
    /\ turnStartSeat = 0
    /\ skipResolver = None
    /\ timer = startTurnTimer(gs)
    /\ room = None

RoomDrawRngs(state, playerIndex) ==
    DrawRngs(state, IF DrawIsForced(state, playerIndex) THEN ForcedCount(state) ELSE 1)

\* the state after executeAction, with the timer restarted for it (a failed
\* action restarts the timer on the unchanged state)
Executed(playerIndex, action, rng) ==
    LET result == executeAction(gs, playerIndex, action, rng)
    IN  /\ steps < RoomMaxSteps
        /\ gs' = result.gs
        /\ steps' = IF result.gs = gs THEN steps ELSE steps + 1
        /\ timer' = startTurnTimer(result.gs)
        /\ UNCHANGED room
        /\ History(action.action = "resolve_response", result.gs)

\* handlePlayAction: a message from a seat that canPlayerAct lets through
HandlePlayAction(playerIndex, action, rng) ==
    /\ canPlayerAct(gs, playerIndex)
    /\ Executed(playerIndex, action, rng)

PlainAction(name) == [action |-> name]

CardAction(name, card) == [action |-> name, card |-> card]

\* a play the gate rejects changes nothing, so the plays sent are the legal ones
PlayCards ==
    \E playerIndex \in PlayerIds(gs) :
        \E lp \in getLegalPlays(gs, playerIndex), act \in ActivateChoices :
            HandlePlayAction(playerIndex,
                [action |-> "play_cards", cards |-> lp.cards,
                 chosenSuit |-> lp.chosenSuit, activateEffect |-> act], << >>)

Draw ==
    \E playerIndex \in PlayerIds(gs) :
        \E rng \in RoomDrawRngs(gs, playerIndex) :
            HandlePlayAction(playerIndex, PlainAction("draw"), rng)

EndTurn ==
    \E playerIndex \in PlayerIds(gs) :
        HandlePlayAction(playerIndex, PlainAction("end_turn"), << >>)

DeclareLastCardMessage ==
    \E playerIndex \in PlayerIds(gs) :
        HandlePlayAction(playerIndex, PlainAction("declare_last_card"), << >>)

ResolveResponse ==
    \E playerIndex \in PlayerIds(gs) :
        HandlePlayAction(playerIndex, PlainAction("resolve_response"), << >>)

DeflectResponse ==
    \E playerIndex \in PlayerIds(gs), card \in Cards :
        HandlePlayAction(playerIndex, CardAction("deflect_response", card), << >>)

CancelResponse ==
    \E playerIndex \in PlayerIds(gs), card \in Cards :
        HandlePlayAction(playerIndex, CardAction("cancel_response", card), << >>)

SevenCancelEffect ==
    \E playerIndex \in PlayerIds(gs), card \in Cards :
        HandlePlayAction(playerIndex, CardAction("seven_cancel_effect", card), << >>)

SevenCancelLastCard ==
    \E playerIndex \in PlayerIds(gs), card \in Cards :
        HandlePlayAction(playerIndex, CardAction("seven_cancel_last_card", card), << >>)

SevenDisputePlay ==
    \E playerIndex \in PlayerIds(gs), card \in Cards :
        HandlePlayAction(playerIndex, CardAction("seven_dispute_play", card), << >>)

SevenDisputeAccept ==
    \E playerIndex \in PlayerIds(gs) :
        HandlePlayAction(playerIndex, PlainAction("seven_dispute_accept"), << >>)

\* the action handleTimerTimeout picks for the expired timer
TimeoutAction(state, phase) ==
    IF phase = "response"
    THEN IF isInResponsePhase(state) THEN "resolve_response"
         ELSE IF isInSevenDispute(state) THEN "seven_dispute_accept"
         ELSE IF isInJackResponse(state) THEN "jack_accept"
         ELSE IF isInAceResponse(state) THEN "ace_accept"
         ELSE "none"
    ELSE "draw"

\* handleTimerTimeout: the timer is stopped, and while there is no winner
\* the auto-action runs for the seat the timer was started for
HandleTimerTimeout ==
    /\ timer # None
    /\ IF gs.winner # NULL \/ TimeoutAction(gs, timer[1].phase) = "none"
       THEN /\ timer' = None
            /\ UNCHANGED <<gs, steps, turnStartSeat, skipResolver, room>>
       ELSE \E rng \in RoomDrawRngs(gs, timer[1].playerIndex) :
                Executed(timer[1].playerIndex,
                         PlainAction(TimeoutAction(gs, timer[1].phase)), rng)

RoomNext ==
    \/ PlayCards
    \/ Draw
    \/ EndTurn
    \/ DeclareLastCardMessage
    \/ ResolveResponse
    \/ DeflectResponse
    \/ CancelResponse
    \/ SevenCancelEffect
    \/ SevenCancelLastCard
    \/ SevenDisputePlay
    \/ SevenDisputeAccept
    \/ HandleTimerTimeout

RoomSpec == RoomInit /\ [][RoomNext]_vars

---------------------------------------------------------------------------
(* The room driven by clients that send only what the legality queries     *)
(* offer: the active seat plays, draws, declares or ends its turn while no *)
(* chain or dispute is open, and the responder of a chain or dispute       *)
(* answers it with a card the matching query returns.                      *)

\* number of state-changing messages handled from start
TableMaxSteps == 5

TableExecuted(playerIndex, action, rng) ==
    LET result == executeAction(gs, playerIndex, action, rng)
    IN  /\ steps < TableMaxSteps
        /\ canPlayerAct(gs, playerIndex)
        /\ result.gs # gs
        /\ gs' = result.gs
        /\ steps' = steps + 1
        /\ timer' = startTurnTimer(result.gs)
        /\ UNCHANGED room
        /\ History(action.action = "resolve_response", result.gs)

\* no chain and no dispute is open, and nobody has won
TurnIsOpen(state) ==
    /\ state.winner = NULL
    /\ ~isInResponsePhase(state)
    /\ ~isInSevenDispute(state)

TablePlayCards ==
    /\ TurnIsOpen(gs)
    /\ \E lp \in getLegalPlays(gs, gs.currentPlayerIndex), act \in ActivateChoices :
          TableExecuted(gs.currentPlayerIndex,
              [action |-> "play_cards", cards |-> lp.cards,
               chosenSuit |-> lp.chosenSuit, activateEffect |-> act], << >>)

TableDraw ==
    /\ TurnIsOpen(gs)
    /\ \E rng \in RoomDrawRngs(gs, gs.currentPlayerIndex) :
          TableExecuted(gs.currentPlayerIndex, PlainAction("draw"), rng)

TableEndTurn ==
    /\ TurnIsOpen(gs)
    /\ TableExecuted(gs.currentPlayerIndex, PlainAction("end_turn"), << >>)

\* the client offers the declaration to a seat that is about to play down to
\* one card without a special card
TableDeclareLastCard ==
    /\ TurnIsOpen(gs)
    /\ \E lp \in getLegalPlays(gs, gs.currentPlayerIndex) :
          canDeclareLastCard(gs, lp.cards)
    /\ TableExecuted(gs.currentPlayerIndex, PlainAction("declare_last_card"), << >>)

TableResolveResponse ==
    /\ isInResponsePhase(gs)
    /\ TableExecuted(gs.respondingPlayerIndex, PlainAction("resolve_response"), << >>)

TableDeflectResponse ==
    \E card \in getLegalDeflections(gs) :
        TableExecuted(gs.respondingPlayerIndex, CardAction("deflect_response", card), << >>)

TableSevenCancelEffect ==
    \E card \in getLegalSevenCancelsEffect(gs, gs.respondingPlayerIndex) :
        TableExecuted(gs.respondingPlayerIndex, CardAction("seven_cancel_effect", card), << >>)

TableSevenCancelLastCard ==
    /\ TurnIsOpen(gs)
    /\ \E card \in getLegalSevenCancelsLastCard(gs, gs.currentPlayerIndex) :
          TableExecuted(gs.currentPlayerIndex, CardAction("seven_cancel_last_card", card), << >>)

TableSevenDisputePlay ==
    \E card \in SevenDisputePlayArgs(gs) :
        TableExecuted(gs.sevenDispute[1].responderPlayerId,
                      CardAction("seven_dispute_play", card), << >>)

TableSevenDisputeAccept ==
    /\ isInSevenDispute(gs)
    /\ TableExecuted(gs.sevenDispute[1].responderPlayerId,
                     PlainAction("seven_dispute_accept"), << >>)

TableNext ==
    \/ TablePlayCards
    \/ TableDraw
    \/ TableEndTurn
    \/ TableDeclareLastCard
    \/ TableResolveResponse
    \/ TableDeflectResponse
    \/ TableSevenCancelEffect
    \/ TableSevenCancelLastCard
    \/ TableSevenDisputePlay
    \/ TableSevenDisputeAccept

TableSpec == RoomInit /\ [][TableNext]_vars

---------------------------------------------------------------------------
(* Card conservation *)

HandCards(state) == UNION {state.players[i].hand : i \in PlayerIds(state)}

RECURSIVE SumOfHandSizes(_, _)
SumOfHandSizes(state, ids) ==
    IF ids = {} THEN 0
    ELSE LET i == CHOOSE x \in ids : TRUE
         IN  Cardinality(state.players[i].hand) + SumOfHandSizes(state, ids \ {i})

\* C1: in every state reached from initializeGame by engine transitions whose
\* card or play argument is legal for the seat acted on, the draw pile, the
\* discard pile and the hands together hold every card of the deck exactly
\* once: their union is the deck and their sizes sum to the deck size.
C1_Conservation ==
    /\ Range(gs.drawPile) \cup Range(gs.discardPile) \cup HandCards(gs) = Cards
    /\ Len(gs.drawPile) + Len(gs.discardPile) + SumOfHandSizes(gs, PlayerIds(gs))
         = Len(createDeck)

\* a seat has played and the discard pile is back to its top card alone: the
\* played cards went through a recycle of the discard pile into a draw
C1_Witness ==
    /\ Len(gs.discardPile) = 1
    /\ \E i \in PlayerIds(gs) : Cardinality(gs.players[i].hand) < HandSize

---------------------------------------------------------------------------
(* Sub-protocols: response chain and seven dispute *)

\* C2: in every reachable state the response chain and the seven dispute are
\* not both open.
C2_ChainAndDisputeExclusive ==
    ~(isInResponsePhase(gs) /\ isInSevenDispute(gs))

\* C3: while a response chain or a seven dispute is open, isPlayLegal is
\* false for every seat and every play (getLegalPlays returns nothing for
\* any seat).
C3_NoLegalPlayWhileSubProtocolOpen ==
    (isInResponsePhase(gs) \/ isInSevenDispute(gs)) =>
        \A seat \in PlayerIds(gs) : getLegalPlays(gs, seat) = {}

---------------------------------------------------------------------------
(* Every engine transition a caller can apply to a state *)

PlayArgs(state) ==
    {[cards |-> lp.cards, chosenSuit |-> lp.chosenSuit, activateEffect |-> act] :
        lp \in getLegalPlays(state, state.currentPlayerIndex), act \in ActivateChoices}

\* the transitions of Next as pairs of the function called and the state it returns
Transitions(state) ==
    {[op |-> "applyPlay", result |-> applyPlay(state, play)] : play \in PlayArgs(state)}
    \cup UNION {{[op |-> "applyDraw", result |-> applyDraw(state, count, rng)] :
                    rng \in DrawRngs(state, count)} : count \in 0..MaxDrawCount}
    \cup {[op |-> "applyVoluntaryDraw", result |-> applyVoluntaryDraw(state, rng)] :
            rng \in DrawRngs(state, 1)}
    \cup {[op |-> "applyForcedDraw", result |-> applyForcedDraw(state, rng)] :
            rng \in DrawRngs(state, ForcedCount(state))}
    \cup {[op |-> "nextTurn", result |-> nextTurn(state)],
          [op |-> "confirmHandoff", result |-> confirmHandoff(state)],
          [op |-> "declareLastCard", result |-> declareLastCard(state)],
          [op |-> "applyResolve", result |-> applyResolve(state)],
          [op |-> "applySevenDisputeAccept", result |-> applySevenDisputeAccept(state)]}
    \cup {[op |-> "applyDeflect", result |-> applyDeflect(state, card)] :
            card \in getLegalDeflections(state)}
    \cup {[op |-> "applySevenCancelEffect", result |-> applySevenCancelEffect(state, card)] :
            card \in getLegalSevenCancelsEffect(state, state.respondingPlayerIndex)}
    \cup {[op |-> "applySevenCancelLastCard", result |-> applySevenCancelLastCard(state, card)] :
            card \in getLegalSevenCancelsLastCard(state, state.currentPlayerIndex)}
    \cup {[op |-> "applySevenDisputePlay", result |-> applySevenDisputePlay(state, card)] :
            card \in SevenDisputePlayArgs(state)}

---------------------------------------------------------------------------
(* Game over *)

SameCardsAndWinner(a, b) ==
    /\ \A i \in PlayerIds(a) : a.players[i].hand = b.players[i].hand
    /\ a.drawPile = b.drawPile
    /\ a.discardPile = b.discardPile
    /\ a.winner = b.winner

\* C4: once winner is set, every engine transition returns a state with the
\* same hands, the same draw pile, the same discard pile and the same winner.
C4_FrozenAfterWinner ==
    gs.winner # NULL =>
        \A t \in Transitions(gs) : SameCardsAndWinner(gs, t.result)

---------------------------------------------------------------------------
(* Last-card claim *)

\* C5: after a declaration at turn T, canPlaySevenCancelLastCard is true
\* only for the seat that became active when turn T+1 started; for every
\* other seat it is false, and no claim exists once the turn number is
\* beyond T+1.
C5_OnlyNextActorCanChallenge ==
    /\ \A seat \in PlayerIds(gs) :
          canPlaySevenCancelLastCard(gs, seat) =>
              /\ gs.turnNumber = gs.lastCardClaim[1].turnNumberCreated + 1
              /\ seat = turnStartSeat
    /\ gs.lastCardClaim # None =>
          gs.turnNumber <= gs.lastCardClaim[1].turnNumberCreated + 1

---------------------------------------------------------------------------
(* Deflection *)

\* C6: while a response chain is open every legal deflection has the chain's
\* rank, no 2 or 5 passes a pending skip on to the next responder, and no 10
\* passes a pending forced draw on.
C6_DeflectionKeepsEffectKind ==
    isInResponsePhase(gs) =>
        \A card \in getLegalDeflections(gs) :
            /\ card.rank = gs.responseChainRank
            /\ ~(/\ gs.pendingEffects.skipNextPlayer
                  /\ card.rank \in {"2", "5"}
                  /\ applyDeflect(gs, card).pendingEffects.skipNextPlayer)
            /\ ~(/\ gs.pendingEffects.forcedDrawCount > 0
                  /\ card.rank = "10"
                  /\ applyDeflect(gs, card).pendingEffects.forcedDrawCount > 0)

---------------------------------------------------------------------------
(* Going out *)

NoDrawOwed(state, seat) ==
    state.pendingEffects.forcedDrawCount = 0 /\ ~state.players[seat].lastCardPenalty

\* C7: for every state and seat, no play of getLegalPlays with two or more
\* cards uses all the cards of the seat's hand; and when the hand is exactly
\* one card that matches the target and no draw is owed, the single-card
\* play of that card is returned.
C7_GoingOutIsSingleCard ==
    \A seat \in PlayerIds(gs) :
        LET hand == gs.players[seat].hand
        IN  /\ \A lp \in getLegalPlays(gs, seat) :
                  Len(lp.cards) >= 2 => Range(lp.cards) # hand
            /\ \A card \in hand :
                  (/\ hand = {card}
                   /\ canCardBePlayed(card, getTargetSuit(gs), getTargetRank(gs))
                   /\ NoDrawOwed(gs, seat))
                  => \E lp \in getLegalPlays(gs, seat) : lp.cards = <<card>>

\* one seat holds two cards of one suit that could be played together on the
\* target were it not the whole hand, and a seat is down to one matching card
C7_Witness ==
    /\ \E seat \in PlayerIds(gs) :
          LET hand == gs.players[seat].hand
          IN  /\ Cardinality(hand) = 2
              /\ NoDrawOwed(gs, seat)
              /\ \E a, b \in hand :
                    a # b /\ a.suit = b.suit /\ a.suit = getTargetSuit(gs)
              /\ getLegalPlays(gs, seat) # {}
    /\ \E seat \in PlayerIds(gs), card \in Cards :
          /\ gs.players[seat].hand = {card}
          /\ NoDrawOwed(gs, seat)
          /\ [cards |-> <<card>>, chosenSuit |-> "undefined"] \in getLegalPlays(gs, seat)

---------------------------------------------------------------------------
(* Forced-draw accounting *)

DrawOps == {"applyDraw", "applyForcedDraw", "applyVoluntaryDraw"}

CancellingAccept(state, t) ==
    /\ t.op = "applySevenDisputeAccept"
    /\ isInSevenDispute(state)
    /\ state.sevenDispute[1].kind = "EFFECT"
    /\ state.sevenDispute[1].cancelled

\* C8: forcedDrawCount is never negative; while a response chain or a seven
\* dispute is open no transition decreases it (the accept that cancels the
\* effect and closes the dispute apart); and every transition taking it
\* from a positive value to 0 is a draw or applySevenDisputeAccept on an
\* effect dispute whose cancelled flag is true.
C8_ForcedDrawAccounting ==
    /\ gs.pendingEffects.forcedDrawCount >= 0
    /\ \A t \in Transitions(gs) :
          /\ ((isInResponsePhase(gs) \/ isInSevenDispute(gs))
                  /\ ~CancellingAccept(gs, t)) =>
                t.result.pendingEffects.forcedDrawCount
                    >= gs.pendingEffects.forcedDrawCount
          /\ (/\ gs.pendingEffects.forcedDrawCount > 0
               /\ t.result.pendingEffects.forcedDrawCount = 0)
              => (t.op \in DrawOps \/ CancellingAccept(gs, t))

---------------------------------------------------------------------------
(* Illegal arguments *)

SinglePlay(card) ==
    [cards |-> <<card>>, chosenSuit |-> "undefined", activateEffect |-> "undefined"]

IllegalPlayIgnored(state) ==
    \A card \in Cards :
        ~isPlayLegal(state, state.currentPlayerIndex, SinglePlay(card))
            => applyPlay(state, SinglePlay(card)) = state

IllegalDeflectIgnored(state) ==
    \A card \in Cards \ getLegalDeflections(state) :
        applyDeflect(state, card) = state

IllegalSevenCancelEffectIgnored(state) ==
    \A card \in Cards \ getLegalSevenCancelsEffect(state, state.respondingPlayerIndex) :
        applySevenCancelEffect(state, card) = state

IllegalSevenCancelLastCardIgnored(state) ==
    \A card \in Cards \ getLegalSevenCancelsLastCard(state, state.currentPlayerIndex) :
        applySevenCancelLastCard(state, card) = state

IllegalSevenDisputePlayIgnored(state) ==
    \A card \in Cards \ SevenDisputePlayArgs(state) :
        applySevenDisputePlay(state, card) = state

\* C9: for applyPlay, applyDeflect, applySevenCancelEffect,
\* applySevenCancelLastCard and applySevenDisputePlay, a play or card that is
\* not in the set the matching legality query returns for the seat acted on
\* (a card that seat does not hold included) gives back the input state.
C9_IllegalArgumentsIgnored ==
    /\ IllegalPlayIgnored(gs)
    /\ IllegalDeflectIgnored(gs)
    /\ IllegalSevenCancelEffectIgnored(gs)
    /\ IllegalSevenCancelLastCardIgnored(gs)
    /\ IllegalSevenDisputePlayIgnored(gs)

---------------------------------------------------------------------------
(* Skip imposed on the resolver of a chain of 10s *)

\* C10: once a responder has resolved a response chain that carries a skip
\* (a chain of 10s), that seat plays no card and draws no card before the
\* turn advances past it: no step changes its hand until the turn number
\* changes.
C10_ResolverIsSkipped ==
    [][skipResolver # None =>
          gs'.players[skipResolver[1].seat].hand
              = gs.players[skipResolver[1].seat].hand]_vars

---------------------------------------------------------------------------
(* Basic legality of a single card *)

\* the cards the returned list offers as single-card plays
SingleCardsReturned(state, seat) ==
    {lp.cards[1] : lp \in {x \in getLegalPlays(state, seat) : Len(x.cards) = 1}}

---------------------------------------------------------------------------
(* Aces *)

\* C12: an Ace is wild: a seat that owes no draw and holds an Ace has the
\* single-card play of that Ace among its legal plays, whatever the discard
\* top and the effective suit are, once for each of the four suits.
C12_AceIsWild ==
    \A seat \in PlayerIds(gs) :
        NoDrawOwed(gs, seat) =>
            \A c \in gs.players[seat].hand :
                c.rank = "A" =>
                    \A s \in AllSuits :
                        [cards |-> <<c>>, chosenSuit |-> s] \in getLegalPlays(gs, seat)

---------------------------------------------------------------------------
(* Plays while a draw is owed *)

\* C13: getLegalPlays(state, seat) is empty whenever forcedDrawCount > 0 or
\* the seat's lastCardPenalty flag is set: no Ace and no special card is
\* playable while a draw is owed.
C13_NoPlayWhileDrawOwed ==
    \A seat \in PlayerIds(gs) :
        (gs.pendingEffects.forcedDrawCount > 0 \/ gs.players[seat].lastCardPenalty)
            => getLegalPlays(gs, seat) = {}

\* a forced draw is pending while a seat holds a special card that matches
\* the target, and a seat under penalty holds a card that matches the target
C13_Witness ==
    /\ gs.pendingEffects.forcedDrawCount > 0
    /\ \E seat \in PlayerIds(gs) :
          \E c \in gs.players[seat].hand :
              /\ isSpecialCard(c)
              /\ canCardBePlayed(c, getTargetSuit(gs), getTargetRank(gs))
    /\ \E seat \in PlayerIds(gs) :
          /\ gs.players[seat].lastCardPenalty
          /\ getLegalPlaysWithoutDrawCheck(gs, seat) # {}

---------------------------------------------------------------------------
(* Last-card penalty *)

ActiveSeatHasPenalty(state) ==
    state.players[state.currentPlayerIndex].lastCardPenalty

\* the number of cards applyForcedDraw adds to the active seat's hand
ForcedDrawTakes(state, rng) ==
    Cardinality(applyForcedDraw(state, rng).players[state.currentPlayerIndex].hand)
        - Cardinality(state.players[state.currentPlayerIndex].hand)

\* nextTurn flags the seat that ends its turn on one undeclared card after a
\* play without special effect
PenaltySetAtTurnEnd(state) ==
    LET seat == state.currentPlayerIndex
    IN  (/\ state.winner = NULL
         /\ Cardinality(state.players[seat].hand) = 1
         /\ ~state.players[seat].declaredLastCard
         /\ ~state.lastPlayWasSpecial)
        => nextTurn(state).players[seat].lastCardPenalty

\* the hand-off of a flagged seat
PenalisedHandoff(state) ==
    ActiveSeatHasPenalty(state) =>
        /\ confirmHandoff(state).turnPhase = "must-draw"
        /\ getLegalPlays(confirmHandoff(state), state.currentPlayerIndex) = {}

PenaltyDrawTakesOne(state) ==
    ActiveSeatHasPenalty(state) =>
        \A rng \in DrawRngs(state, ForcedCount(state)) :
            ForcedDrawTakes(state, rng) = 1

PenaltyDrawTakesOneIfAny(state) ==
    ActiveSeatHasPenalty(state) =>
        \A rng \in DrawRngs(state, ForcedCount(state)) :
            ForcedDrawTakes(state, rng) = Min(1, getDrawableCount(state))

\* a step leaves the flag of every seat that is not the active one as set
PenaltyKeptWhileNotActive ==
    \A seat \in PlayerIds(gs) :
        (gs.players[seat].lastCardPenalty /\ gs.currentPlayerIndex # seat)
            => gs'.players[seat].lastCardPenalty

\* C14: a seat whose turn ends (nextTurn) on exactly one card, undeclared,
\* after a play without special effect has its lastCardPenalty flag set; the
\* flag stays set until that seat is the active seat again; its hand-off
\* then gives phase must-draw and no legal play; and its forced draw takes
\* exactly one card.
C14_MissedDeclarationPenalty ==
    /\ [](/\ PenaltySetAtTurnEnd(gs)
          /\ PenalisedHandoff(gs)
          /\ PenaltyDrawTakesOne(gs))
    /\ [][PenaltyKeptWhileNotActive]_vars

\* C14 as amended: the same, with the forced draw taking exactly one card
\* when a card can be drawn (the draw pile is not empty or the discard pile
\* holds more than its top card) and none when no card can be drawn.
C14_MissedDeclarationPenaltyAmended ==
    /\ [](/\ PenaltySetAtTurnEnd(gs)
          /\ PenalisedHandoff(gs)
          /\ PenaltyDrawTakesOneIfAny(gs))
    /\ [][PenaltyKeptWhileNotActive]_vars

\* the flag was set at a turn end and its seat has since been handed the
\* turn: it is the active seat in phase must-draw with a card to draw and a
\* card in hand that would otherwise be playable
C14_Witness ==
    /\ ActiveSeatHasPenalty(gs)
    /\ gs.turnNumber > 0
    /\ gs.turnPhase = "must-draw"
    /\ gs.pendingEffects.forcedDrawCount = 0
    /\ getDrawableCount(gs) > 0
    /\ getLegalPlaysWithoutDrawCheck(gs, gs.currentPlayerIndex) # {}

---------------------------------------------------------------------------
(* Challenged last-card claim *)

ClaimChallengeStands(state) ==
    /\ isInSevenDispute(state)
    /\ state.sevenDispute[1].kind = "LAST_CARD"
    /\ state.sevenDispute[1].cancelled

\* the room's state after the responder of the dispute sends seven_dispute_accept
AfterSevenDisputeAccept(state) ==
    executeAction(state, state.sevenDispute[1].responderPlayerId,
                  PlainAction("seven_dispute_accept"), << >>).gs

\* every seat before the given one sends end_turn when it is handed the turn
RECURSIVE PassUntilActive(_, _, _)
PassUntilActive(state, seat, n) ==
    IF state.currentPlayerIndex = seat \/ n = 0 THEN state
    ELSE PassUntilActive(executeAction(state, state.currentPlayerIndex,
                                       PlainAction("end_turn"), << >>).gs, seat, n - 1)

\* C15: when a last-card claim is challenged with a 7 and the dispute is
\* accepted with cancelled = true, the claimant's lastCardPenalty flag is
\* set no later than the start of its next turn: it is set in the state in
\* which the claimant is next handed the turn.
C15_ChallengedClaimantIsPenalised ==
    ClaimChallengeStands(gs) =>
        LET claimant == gs.sevenDispute[1].lastCardClaimPlayerId
            handed == PassUntilActive(AfterSevenDisputeAccept(gs), claimant,
                                      PlayerCount(gs))
        IN  handed.currentPlayerIndex = claimant
                => handed.players[claimant].lastCardPenalty

---------------------------------------------------------------------------
(* applyForcedDraw *)

\* the forced draw leaves no forced draw pending and no penalty on the actor
ForcedDrawClears(state, rng) ==
    LET drawn == applyForcedDraw(state, rng)
    IN  /\ drawn.pendingEffects.forcedDrawCount = 0
        /\ ~drawn.players[state.currentPlayerIndex].lastCardPenalty

\* without penalty the draw takes the pending total as far as cards last
ForcedDrawTakesTotal(state, rng) ==
    ~ActiveSeatHasPenalty(state) =>
        ForcedDrawTakes(state, rng)
            = Min(state.pendingEffects.forcedDrawCount, getDrawableCount(state))

\* C16: applyForcedDraw draws exactly 1 card when the active seat's penalty
\* flag is set, even if a larger forced-draw total is pending, and otherwise
\* the full pending total as far as cards are available; in both cases the
\* result has forcedDrawCount = 0 and the active seat's penalty flag cleared.
C16_ForcedDrawCount ==
    \A rng \in DrawRngs(gs, ForcedCount(gs)) :
        /\ ActiveSeatHasPenalty(gs) => ForcedDrawTakes(gs, rng) = 1
        /\ ForcedDrawTakesTotal(gs, rng)
        /\ ForcedDrawClears(gs, rng)

\* C16 as amended: with the penalty flag set applyForcedDraw draws exactly 1
\* card if a card can be drawn and none if the draw pile is empty and the
\* discard pile holds only its top card; the rest as stated.
C16_ForcedDrawCountAmended ==
    \A rng \in DrawRngs(gs, ForcedCount(gs)) :
        /\ ActiveSeatHasPenalty(gs) =>
              ForcedDrawTakes(gs, rng) = Min(1, getDrawableCount(gs))
        /\ ForcedDrawTakesTotal(gs, rng)
        /\ ForcedDrawClears(gs, rng)

\* the active seat carries the penalty while a larger forced draw is pending
\* and that many cards could be drawn
C16_Witness ==
    /\ ActiveSeatHasPenalty(gs)
    /\ gs.pendingEffects.forcedDrawCount > 1
    /\ getDrawableCount(gs) >= gs.pendingEffects.forcedDrawCount
    /\ \A rng \in DrawRngs(gs, ForcedCount(gs)) : ForcedDrawTakes(gs, rng) = 1

---------------------------------------------------------------------------
(* Suit override *)

LastCardOf(play) == play.cards[Len(play.cards)]

\* C17: after applyPlay the suit override equals the play's chosen suit if
\* and only if the final card of the play is an Ace and activateEffect is
\* not false; in every other case (a non-Ace final card, or an Ace played
\* with activation off) the override is cleared.
C17_OverrideFollowsActivatedAce ==
    \A play \in PlayArgs(gs) :
        IF LastCardOf(play).rank = "A" /\ play.activateEffect # "false"
        THEN applyPlay(gs, play).chosenSuit = play.chosenSuit
        ELSE applyPlay(gs, play).chosenSuit = "null"

\* C18: in every reachable state a non-null suit override implies that the
\* discard top is an Ace: the override is set only by a play ending in an
\* Ace, and any non-Ace card placed on the discard pile (by a play, a
\* deflection or a seven) clears it.
C18_OverrideOnlyOverAce ==
    gs.chosenSuit # "null" => getTopCard(gs).rank = "A"

---------------------------------------------------------------------------
(* Opening a response chain *)

RanksPlayed(play, r) == {i \in 1..Len(play.cards) : play.cards[i].rank = r}

PlayOpensChain(state, play) ==
    /\ play.activateEffect # "false"
    /\ \E i \in 1..Len(play.cards) : play.cards[i].rank \in {"2", "5", "10"}
    /\ state.players[state.currentPlayerIndex].hand \ Range(play.cards) # {}

\* C19: applyPlay opens a response chain if and only if activateEffect is
\* not false, the play contains a 2, 5 or 10, and the play does not empty
\* the actor's hand; the responder is then the seat after the actor in play
\* direction, forcedDrawCount is 2 for each 2 plus 5 for each 5 of the play,
\* and the skip flag is set exactly when the play contains a 10; with
\* activateEffect = false forcedDrawCount is 0 and the skip flag false.
C19_PlayOpensChain ==
    \A play \in PlayArgs(gs) :
        LET played == applyPlay(gs, play)
        IN  /\ isInResponsePhase(played) <=> PlayOpensChain(gs, play)
            /\ isInResponsePhase(played) =>
                  /\ played.respondingPlayerIndex
                        = getNextPlayerIndex(gs, gs.currentPlayerIndex)
                  /\ played.pendingEffects.forcedDrawCount
                        = 2 * Cardinality(RanksPlayed(play, "2"))
                            + 5 * Cardinality(RanksPlayed(play, "5"))
                  /\ played.pendingEffects.skipNextPlayer
                        <=> RanksPlayed(play, "10") # {}
            /\ play.activateEffect = "false" =>
                  /\ played.pendingEffects.forcedDrawCount = 0
                  /\ ~played.pendingEffects.skipNextPlayer

\* the active seat can open a chain with two cards of one forced-draw rank,
\* has a play with a special card and activation off, and another seat has
\* gone down to a single special card that matches the target
C19_Witness ==
    /\ \E play \in PlayArgs(gs) :
          /\ Cardinality(RanksPlayed(play, "2")) = 2
                \/ Cardinality(RanksPlayed(play, "5")) = 2
          /\ isInResponsePhase(applyPlay(gs, play))
    /\ \E play \in PlayArgs(gs) :
          /\ play.activateEffect = "false"
          /\ RanksPlayed(play, "10") # {}
          /\ ~isInResponsePhase(applyPlay(gs, play))

---------------------------------------------------------------------------
(* Resolving a response chain *)

\* C20: applyResolve on an open response chain gives a state in which the
\* former responder is the active seat, the chain is closed, hands and piles
\* are unchanged, forcedDrawCount is unchanged, the skip flag is false, and
\* the phase is must-draw if forcedDrawCount > 0 and waiting otherwise;
\* applied when no chain is open it returns the state unchanged.
C20_ResolveHandsTurnToResponder ==
    LET resolved == applyResolve(gs)
    IN  IF isInResponsePhase(gs)
        THEN /\ resolved.currentPlayerIndex = gs.respondingPlayerIndex
             /\ ~isInResponsePhase(resolved)
             /\ resolved.responsePhase = "null"
             /\ resolved.responseChainRank = "null"
             /\ resolved.respondingPlayerIndex = NULL
             /\ \A seat \in PlayerIds(gs) :
                   resolved.players[seat].hand = gs.players[seat].hand
             /\ resolved.drawPile = gs.drawPile
             /\ resolved.discardPile = gs.discardPile
             /\ resolved.pendingEffects.forcedDrawCount
                   = gs.pendingEffects.forcedDrawCount
             /\ ~resolved.pendingEffects.skipNextPlayer
             /\ resolved.turnPhase =
                   IF gs.pendingEffects.forcedDrawCount > 0
                   THEN "must-draw" ELSE "waiting"
        ELSE resolved = gs

\* a chain is open that carries a skip and a forced draw, after a deflection
\* (the responder is not the seat next to the active one)
C20_Witness ==
    /\ isInResponsePhase(gs)
    /\ gs.pendingEffects.skipNextPlayer
    /\ gs.pendingEffects.forcedDrawCount > 0
    /\ gs.respondingPlayerIndex # getNextPlayerIndex(gs, gs.currentPlayerIndex)

---------------------------------------------------------------------------
(* Deflecting a response chain *)

\* what a deflected card adds to the running forced-draw total
DeflectDrawValue(card) ==
    IF card.rank = "2" THEN 2 ELSE IF card.rank = "5" THEN 5 ELSE 0

\* the card leaves the responder's hand for the discard top, nothing else moves
DeflectMovesCard(state, card) ==
    LET deflected == applyDeflect(state, card)
        responder == state.respondingPlayerIndex
    IN  /\ card \in state.players[responder].hand
        /\ deflected.players[responder].hand = state.players[responder].hand \ {card}
        /\ \A seat \in PlayerIds(state) \ {responder} :
              deflected.players[seat].hand = state.players[seat].hand
        /\ deflected.discardPile = Append(state.discardPile, card)
        /\ getTopCard(deflected) = card
        /\ deflected.drawPile = state.drawPile

\* a 2 adds 2 and a 5 adds 5 to the total; a 10 adds nothing and leaves the
\* skip a set flag
DeflectAddsDrawValue(state, card) ==
    LET deflected == applyDeflect(state, card)
    IN  /\ deflected.pendingEffects.forcedDrawCount
              = state.pendingEffects.forcedDrawCount + DeflectDrawValue(card)
        /\ card.rank = "10" =>
              /\ deflected.pendingEffects.skipNextPlayer
              /\ deflected.pendingEffects.forcedDrawCount
                    = state.pendingEffects.forcedDrawCount

\* the chain stays open on its rank with the seat after the deflector to respond
DeflectPassesChain(state, card) ==
    LET deflected == applyDeflect(state, card)
    IN  /\ isInResponsePhase(deflected)
        /\ deflected.responseChainRank = state.responseChainRank
        /\ deflected.respondingPlayerIndex
              = getNextPlayerIndex(state, state.respondingPlayerIndex)

\* the deflector has gone out: it is the winner and the chain is closed
DeflectGoesOut(state, card) ==
    LET deflected == applyDeflect(state, card)
    IN  /\ deflected.winner = state.respondingPlayerIndex
        /\ deflected.turnPhase = "game-over"
        /\ ~isInResponsePhase(deflected)
        /\ deflected.responseChainRank = "null"
        /\ deflected.respondingPlayerIndex = NULL

\* C21: applyDeflect with a card of the chain's rank held by the responder
\* moves exactly that card from the responder's hand to the discard top, adds
\* 2 (for a 2) or 5 (for a 5) to forcedDrawCount and nothing for a 10, keeps
\* the chain rank, and passes the responder role to the next seat in play
\* direction after the deflector, however far the chain has come.
C21_DeflectPassesChainOn ==
    \A card \in getLegalDeflections(gs) :
        /\ DeflectMovesCard(gs, card)
        /\ DeflectAddsDrawValue(gs, card)
        /\ DeflectPassesChain(gs, card)

\* C21 as amended: the card moves and the total grows as stated; the chain
\* keeps its rank and passes to the seat after the deflector unless the
\* deflected card was the responder's last, in which case the responder wins
\* and the chain is closed.
C21_DeflectPassesChainOnAmended ==
    \A card \in getLegalDeflections(gs) :
        /\ DeflectMovesCard(gs, card)
        /\ DeflectAddsDrawValue(gs, card)
        /\ IF gs.players[gs.respondingPlayerIndex].hand = {card}
           THEN DeflectGoesOut(gs, card)
           ELSE DeflectPassesChain(gs, card)

\* a chain that has already been deflected once (the responder is not the
\* seat next to the active one) can be deflected again by a responder that
\* keeps cards
C21_Witness ==
    /\ isInResponsePhase(gs)
    /\ gs.respondingPlayerIndex # getNextPlayerIndex(gs, gs.currentPlayerIndex)
    /\ \E card \in getLegalDeflections(gs) :
          /\ gs.players[gs.respondingPlayerIndex].hand # {card}
          /\ DeflectPassesChain(gs, card)
          /\ applyDeflect(gs, card).pendingEffects.forcedDrawCount
                > gs.pendingEffects.forcedDrawCount

---------------------------------------------------------------------------
(* Going out wins at once *)

\* the transitions that take cards from a hand, each with the seat whose hand
\* it takes them from
CardPlayingTransitions(state) ==
    {[op |-> "applyPlay", seat |-> state.currentPlayerIndex,
      result |-> applyPlay(state, play)] : play \in PlayArgs(state)}
    \cup {[op |-> "applyDeflect", seat |-> state.respondingPlayerIndex,
           result |-> applyDeflect(state, card)] :
            card \in getLegalDeflections(state)}
    \cup {[op |-> "applySevenCancelEffect", seat |-> state.respondingPlayerIndex,
           result |-> applySevenCancelEffect(state, card)] :
            card \in getLegalSevenCancelsEffect(state, state.respondingPlayerIndex)}
    \cup {[op |-> "applySevenCancelLastCard", seat |-> state.currentPlayerIndex,
           result |-> applySevenCancelLastCard(state, card)] :
            card \in getLegalSevenCancelsLastCard(state, state.currentPlayerIndex)}
    \cup {[op |-> "applySevenDisputePlay", seat |-> state.sevenDispute[1].responderPlayerId,
           result |-> applySevenDisputePlay(state, card)] :
            card \in SevenDisputePlayArgs(state)}

GoesOut(t) == t.result.players[t.seat].hand = {}

\* C22: whenever applyPlay, applyDeflect, applySevenCancelEffect,
\* applySevenCancelLastCard or applySevenDisputePlay leaves the acting seat
\* with an empty hand, the resulting state has winner = that seat and
\* turnPhase = game-over, whatever effect is pending and whatever chain or
\* dispute is open.
C22_EmptyHandWinsAtOnce ==
    \A t \in CardPlayingTransitions(gs) :
        GoesOut(t) =>
            /\ t.result.winner = t.seat
            /\ t.result.turnPhase = "game-over"

\* a seven dispute over a pending effect is open and its responder can go
\* out by answering with its last card, a seven
C22_Witness ==
    /\ isInSevenDispute(gs)
    /\ gs.pendingEffects.forcedDrawCount > 0 \/ gs.pendingEffects.skipNextPlayer
    /\ \E t \in CardPlayingTransitions(gs) :
          /\ t.op = "applySevenDisputePlay"
          /\ GoesOut(t)
          /\ t.result.winner = t.seat

---------------------------------------------------------------------------
(* Opening an effect dispute *)

\* every seven a caller can pass, of the four suits of a full deck
Sevens == {Card("7", s) : s \in AllSuits}

\* the seven leaves the responder's hand for the discard top, nothing else moves
SevenCancelMovesCard(state, card) ==
    LET cancelled == applySevenCancelEffect(state, card)
        responder == state.respondingPlayerIndex
    IN  /\ cancelled.players[responder].hand = state.players[responder].hand \ {card}
        /\ \A seat \in PlayerIds(state) \ {responder} :
              cancelled.players[seat].hand = state.players[seat].hand
        /\ cancelled.discardPile = Append(state.discardPile, card)
        /\ getTopCard(cancelled) = card
        /\ cancelled.drawPile = state.drawPile

\* the chain is closed and the effects stay pending
SevenCancelClosesChain(state, card) ==
    LET cancelled == applySevenCancelEffect(state, card)
    IN  /\ ~isInResponsePhase(cancelled)
        /\ cancelled.responsePhase = "null"
        /\ cancelled.responseChainRank = "null"
        /\ cancelled.respondingPlayerIndex = NULL
        /\ cancelled.pendingEffects = state.pendingEffects

\* an effect dispute is open on a snapshot of the pending effects, cancelled,
\* with the seat after the canceller to respond
SevenCancelOpensDispute(state, card) ==
    LET cancelled == applySevenCancelEffect(state, card)
    IN  /\ isInSevenDispute(cancelled)
        /\ cancelled.sevenDispute[1].kind = "EFFECT"
        /\ cancelled.sevenDispute[1].cancelled
        /\ cancelled.sevenDispute[1].effectSnapshot # None
        /\ cancelled.sevenDispute[1].effectSnapshot[1].drawAmount
              = state.pendingEffects.forcedDrawCount
        /\ cancelled.sevenDispute[1].effectSnapshot[1].skip
              = state.pendingEffects.skipNextPlayer
        /\ cancelled.sevenDispute[1].responderPlayerId
              = getNextPlayerIndex(state, state.respondingPlayerIndex)

\* the canceller has gone out: it is the winner and no dispute is opened
SevenCancelGoesOut(state, card) ==
    LET cancelled == applySevenCancelEffect(state, card)
    IN  /\ cancelled.winner = state.respondingPlayerIndex
        /\ cancelled.turnPhase = "game-over"
        /\ ~isInSevenDispute(cancelled)

HeldByResponder(state, card) ==
    card \in state.players[state.respondingPlayerIndex].hand

\* C23: applySevenCancelEffect, applied by the chain responder with a seven
\* of the effective suit from its hand, moves that seven to the discard top,
\* closes the response chain, leaves the pending effects in place, and opens
\* an EFFECT dispute with cancelled = true, a snapshot equal to the pending
\* effects at that moment, and the next seat in play direction after the
\* canceller as dispute responder; a seven of any other suit is rejected
\* with the state unchanged.
C23_SevenCancelOpensEffectDispute ==
    isInResponsePhase(gs) =>
        \A card \in Sevens :
            IF card.suit = getEffectiveSuitForSevenCancel(gs)
            THEN HeldByResponder(gs, card) =>
                    /\ SevenCancelMovesCard(gs, card)
                    /\ SevenCancelClosesChain(gs, card)
                    /\ SevenCancelOpensDispute(gs, card)
            ELSE applySevenCancelEffect(gs, card) = gs

\* C23 as amended: the seven moves, the chain closes and the effects stay
\* pending as stated; the dispute is opened unless the seven was the
\* responder's last card, in which case the responder wins and no dispute
\* is opened; a seven of any other suit is rejected with the state unchanged.
C23_SevenCancelOpensEffectDisputeAmended ==
    isInResponsePhase(gs) =>
        \A card \in Sevens :
            IF card.suit = getEffectiveSuitForSevenCancel(gs)
            THEN HeldByResponder(gs, card) =>
                    /\ SevenCancelMovesCard(gs, card)
                    /\ SevenCancelClosesChain(gs, card)
                    /\ IF gs.players[gs.respondingPlayerIndex].hand = {card}
                       THEN SevenCancelGoesOut(gs, card)
                       ELSE SevenCancelOpensDispute(gs, card)
            ELSE applySevenCancelEffect(gs, card) = gs

\* a responder of a forced-draw chain holds both sevens: the one of the
\* effective suit opens the dispute, the other is rejected
C23_Witness ==
    /\ isInResponsePhase(gs)
    /\ gs.pendingEffects.forcedDrawCount > 0
    /\ \E card, other \in Sevens :
          /\ HeldByResponder(gs, card) /\ HeldByResponder(gs, other)
          /\ card.suit = getEffectiveSuitForSevenCancel(gs)
          /\ other.suit # getEffectiveSuitForSevenCancel(gs)
          /\ SevenCancelOpensDispute(gs, card)
          /\ applySevenCancelEffect(gs, other) = gs

---------------------------------------------------------------------------
(* Seven dispute: counter-sevens.  A dispute can take up to three           *)
(* counter-sevens, so the engine is started here from a deal of a deck that *)
(* has the sevens of all four suits.                                        *)

\* the most counter-sevens followed after an opening seven
MaxCounterSevens == 3

\* the deck after the setup shuffle: hands in seat order, then the draw pile,
\* the first discard last
\*   2h 7d 3h | 7h 7s 3c | 7c 10h 5c | Ac 2c 10c 5h | Ah
DisputeDeck ==
    << Card("2", "hearts"), Card("7", "diamonds"), Card("3", "hearts"),
       Card("7", "hearts"), Card("7", "spades"), Card("3", "clubs"),
       Card("7", "clubs"), Card("10", "hearts"), Card("5", "clubs"),
       Card("A", "clubs"), Card("2", "clubs"), Card("10", "clubs"),
       Card("5", "hearts"), Card("A", "hearts") >>

\* the body of initializeGame on a shuffled deck: hands are
\* deck.splice(0, handSize) in seat order, the first discard is deck.pop(),
\* the draw pile is what remains; nothing is pending whatever card is flipped
dealGame(deck, handSize, playerCount) ==
    LET rest == SubSeq(deck, playerCount * handSize + 1, Len(deck))
    IN  [players |-> [i \in 0..(playerCount - 1) |->
                        NewPlayer({deck[k] : k \in (i * handSize + 1)..((i + 1) * handSize)})],
         currentPlayerIndex |-> 0,
         drawPile |-> SubSeq(rest, 1, Len(rest) - 1),
         discardPile |-> <<rest[Len(rest)]>>,
         chosenSuit |-> "null",
         pendingEffects |-> [forcedDrawCount |-> 0, skipNextPlayer |-> FALSE],
         turnPhase |-> "waiting",
         winner |-> NULL,
         lastPlayWasSpecial |-> FALSE,
         direction |-> "CW",
         responsePhase |-> "null",
         responseChainRank |-> "null",
         respondingPlayerIndex |-> NULL,
         sevenDispute |-> None,
         lastCardClaim |-> None,
         turnNumber |-> 0,
         jackResponse |-> None,
         aceResponse |-> None]

DisputeInit ==
    /\ \E playerCount \in 2..MaxPlayers :
        /\ playerCount * HandSize + 1 <= Len(DisputeDeck)
        /\ gs = dealGame(DisputeDeck, HandSize, playerCount)
    /\ steps = 0
    /\ turnStartSeat = 0
    /\ skipResolver = None
    /\ timer = None
    /\ room = None

DisputeSpec == DisputeInit /\ [][Next]_vars

\* the states a seven of the active seat or of the chain responder opens a
\* dispute in
DisputesOpenedFrom(state) ==
    {t.result : t \in {u \in Transitions(state) :
        /\ u.op \in {"applySevenCancelEffect", "applySevenCancelLastCard"}
        /\ isInSevenDispute(u.result)}}

\* the states k counter-sevens later, each played by the responder of the moment
RECURSIVE AfterCounterSevens(_, _)
AfterCounterSevens(states, k) ==
    IF k = 0 THEN states
    ELSE AfterCounterSevens(
            UNION {{applySevenDisputePlay(s, card) : card \in SevenDisputePlayArgs(s)} :
                        s \in states},
            k - 1)

\* the counter-seven flips the flag and hands the reply to the next seat
CounterSevenToggles(state, card) ==
    LET countered == applySevenDisputePlay(state, card)
    IN  /\ isInSevenDispute(countered)
        /\ countered.sevenDispute[1].cancelled = ~state.sevenDispute[1].cancelled
        /\ countered.sevenDispute[1].responderPlayerId
              = getNextPlayerIndex(state, state.sevenDispute[1].responderPlayerId)
        /\ countered.sevenDispute[1].kind = state.sevenDispute[1].kind

\* the counter-seven was the responder's last card: it wins, the dispute is closed
CounterSevenGoesOut(state, card) ==
    LET countered == applySevenDisputePlay(state, card)
    IN  /\ countered.winner = state.sevenDispute[1].responderPlayerId
        /\ countered.turnPhase = "game-over"
        /\ ~isInSevenDispute(countered)

\* after k counter-sevens a dispute still open is cancelled exactly for even k
CancelledIffEven ==
    \A opened \in DisputesOpenedFrom(gs), k \in 0..MaxCounterSevens :
        \A s \in AfterCounterSevens({opened}, k) :
            isInSevenDispute(s) => (s.sevenDispute[1].cancelled <=> k % 2 = 0)

\* C24: while a seven dispute is open, each counter-seven (of any suit)
\* played by the current dispute responder flips the cancelled flag and
\* passes the responder role to the next seat in play direction; hence after
\* k counter-sevens following the opening seven, cancelled is true if and
\* only if k is even.
C24_CounterSevenToggles ==
    /\ isInSevenDispute(gs) =>
          \A card \in SevenDisputePlayArgs(gs) : CounterSevenToggles(gs, card)
    /\ \A opened \in DisputesOpenedFrom(gs), k \in 0..MaxCounterSevens :
          \A s \in AfterCounterSevens({opened}, k) :
              /\ isInSevenDispute(s)
              /\ s.sevenDispute[1].cancelled <=> k % 2 = 0

\* C24 as amended: a counter-seven that is not the responder's last card
\* flips the flag and passes the reply on; one that is its last card ends
\* the game with the responder as winner and the dispute closed; while the
\* dispute is open after k counter-sevens, cancelled is true iff k is even.
C24_CounterSevenTogglesAmended ==
    /\ isInSevenDispute(gs) =>
          \A card \in SevenDisputePlayArgs(gs) :
              IF gs.players[gs.sevenDispute[1].responderPlayerId].hand = {card}
              THEN CounterSevenGoesOut(gs, card)
              ELSE CounterSevenToggles(gs, card)
    /\ CancelledIffEven

\* a seven can open a dispute that is then answered by three counter-sevens,
\* one of them of another suit than the opening seven, and is still open
C24_Witness ==
    \E opened \in DisputesOpenedFrom(gs) :
        \E s \in AfterCounterSevens({opened}, MaxCounterSevens) :
            /\ isInSevenDispute(s)
            /\ ~s.sevenDispute[1].cancelled
            /\ getTopCard(s).suit # getTopCard(opened).suit

---------------------------------------------------------------------------
(* Accepting a seven dispute *)

EffectDisputeOpen(state) ==
    isInSevenDispute(state) /\ state.sevenDispute[1].kind = "EFFECT"

\* the effect is gone and the active seat goes on with its turn
AcceptClearsEffect(state) ==
    LET accepted == applySevenDisputeAccept(state)
    IN  /\ accepted.pendingEffects = [forcedDrawCount |-> 0, skipNextPlayer |-> FALSE]
        /\ accepted.currentPlayerIndex = state.currentPlayerIndex
        /\ accepted.turnPhase = "can-end"

\* the snapshot is pending again on the accepting responder, now the active seat
AcceptRestoresEffect(state) ==
    LET accepted == applySevenDisputeAccept(state)
        snapshot == state.sevenDispute[1].effectSnapshot[1]
    IN  /\ accepted.pendingEffects.forcedDrawCount = snapshot.drawAmount
        /\ accepted.pendingEffects.skipNextPlayer = snapshot.skip
        /\ accepted.currentPlayerIndex = state.sevenDispute[1].responderPlayerId

\* must-draw when the restored effect owes a draw, waiting otherwise
AcceptSetsDrawPhase(state) ==
    LET accepted == applySevenDisputeAccept(state)
    IN  accepted.turnPhase =
            IF accepted.pendingEffects.forcedDrawCount > 0 THEN "must-draw" ELSE "waiting"

\* C25: applySevenDisputeAccept on an EFFECT dispute closes the dispute and:
\* if cancelled is true, sets the pending effects to {0, false}, leaves the
\* active seat unchanged and sets phase can-end; if cancelled is false,
\* restores the pending effects to the snapshot, makes the accepting
\* responder the active seat, and sets phase must-draw when a draw is owed
\* and waiting otherwise.
C25_AcceptEffectDispute ==
    EffectDisputeOpen(gs) =>
        /\ ~isInSevenDispute(applySevenDisputeAccept(gs))
        /\ IF gs.sevenDispute[1].cancelled
           THEN AcceptClearsEffect(gs)
           ELSE AcceptRestoresEffect(gs) /\ AcceptSetsDrawPhase(gs)

ClaimDisputeOpen(state) ==
    isInSevenDispute(state) /\ state.sevenDispute[1].kind = "LAST_CARD"

\* no card moves and the active seat stays
AcceptMovesNothing(state) ==
    LET accepted == applySevenDisputeAccept(state)
    IN  /\ \A seat \in PlayerIds(state) :
              accepted.players[seat].hand = state.players[seat].hand
        /\ accepted.drawPile = state.drawPile
        /\ accepted.discardPile = state.discardPile
        /\ accepted.currentPlayerIndex = state.currentPlayerIndex

\* the claimant loses its declaration and the claim is gone
AcceptStripsClaim(state) ==
    LET accepted == applySevenDisputeAccept(state)
        claimant == state.sevenDispute[1].lastCardClaimPlayerId
    IN  /\ ~accepted.players[claimant].declaredLastCard
        /\ accepted.lastCardClaim = None

\* claim and flags of every seat are what they were
AcceptKeepsClaim(state) ==
    LET accepted == applySevenDisputeAccept(state)
    IN  /\ accepted.lastCardClaim = state.lastCardClaim
        /\ accepted.players = state.players

\* C26: applySevenDisputeAccept on a LAST_CARD dispute closes the dispute
\* without changing hands, piles or the active seat and: if cancelled is
\* true, clears the claimant's declaredLastCard flag and removes the claim;
\* if cancelled is false, leaves the claim and the claimant's flags exactly
\* as they were.
C26_AcceptClaimDispute ==
    ClaimDisputeOpen(gs) =>
        /\ ~isInSevenDispute(applySevenDisputeAccept(gs))
        /\ AcceptMovesNothing(gs)
        /\ IF gs.sevenDispute[1].cancelled
           THEN AcceptStripsClaim(gs)
           ELSE AcceptKeepsClaim(gs)

\* a claim dispute stands at cancelled = true against a claimant whose
\* declaration is still set
C26_Witness ==
    /\ ClaimDisputeOpen(gs)
    /\ gs.sevenDispute[1].cancelled
    /\ gs.players[gs.sevenDispute[1].lastCardClaimPlayerId].declaredLastCard
    /\ gs.lastCardClaim # None

---------------------------------------------------------------------------
(* Drawing and recycling *)

\* largest count a draw is asked for when every draw of a state is examined
MaxDrawRequest == 7

\* every draw a caller can make in a state: the count asked for and the state returned
DrawsOf(state) ==
    UNION {{[count |-> count, result |-> applyDraw(state, count, rng)] :
                rng \in DrawRngs(state, count)} : count \in 0..MaxDrawRequest}
    \cup {[count |-> 1, result |-> applyVoluntaryDraw(state, rng)] :
            rng \in DrawRngs(state, 1)}
    \cup {[count |-> ForcedCount(state), result |-> applyForcedDraw(state, rng)] :
            rng \in DrawRngs(state, ForcedCount(state))}

\* the cards of the discard pile beneath its top card
BeneathTop(state) ==
    {state.discardPile[i] : i \in 1..(Len(state.discardPile) - 1)}

\* the draw left the discard pile alone, or took all of it but the top card
\* into the draw pile and the hand of the active seat
RecyclesBeneathTopOnly(state, drawn) ==
    \/ drawn.discardPile = state.discardPile
    \/ /\ drawn.discardPile = <<getTopCard(state)>>
       /\ BeneathTop(state)
            \subseteq Range(drawn.drawPile) \cup drawn.players[state.currentPlayerIndex].hand
       /\ getTopCard(state) \notin Range(drawn.drawPile)
       /\ getTopCard(state) \notin drawn.players[state.currentPlayerIndex].hand

\* C27: in every reachable state the discard pile is non-empty, and no draw
\* ever changes its top card: recycling moves only the cards beneath the top
\* into the draw pile.
C27_DiscardTopSurvivesDraws ==
    /\ Len(gs.discardPile) >= 1
    /\ \A d \in DrawsOf(gs) :
          /\ Len(d.result.discardPile) >= 1
          /\ getTopCard(d.result) = getTopCard(gs)
          /\ RecyclesBeneathTopOnly(gs, d.result)

\* the draw pile is empty under a discard pile of several cards, and a draw
\* of one card recycles it down to the top card
C27_Witness ==
    /\ gs.drawPile = << >>
    /\ Len(gs.discardPile) >= 3
    /\ \E d \in DrawsOf(gs) :
          /\ d.count = 1
          /\ d.result.discardPile = <<getTopCard(gs)>>
          /\ Len(d.result.drawPile) = Len(gs.discardPile) - 2

\* the cards a draw adds to the hand of the active seat
DrawTakes(state, drawn) ==
    Cardinality(drawn.players[state.currentPlayerIndex].hand)
        - Cardinality(state.players[state.currentPlayerIndex].hand)

\* the drawn cards come off the draw pile first and off the recycled cards
\* once it is empty
DrawnFromPiles(state, drawn) ==
    LET taken == drawn.players[state.currentPlayerIndex].hand
                    \ state.players[state.currentPlayerIndex].hand
    IN  /\ taken \subseteq Range(state.drawPile) \cup BeneathTop(state)
        /\ taken \cap BeneathTop(state) # {} => Range(state.drawPile) \subseteq taken

\* C28: applyDraw(state, count) never raises and adds exactly
\* min(count, |draw pile| + max(0, |discard pile| - 1)) cards to the active
\* seat's hand, taking them from the draw pile and, once it is empty, from
\* the recycled discard cards; when both piles are exhausted it simply
\* draws fewer cards.
C28_DrawTakesWhatIsThere ==
    \A d \in DrawsOf(gs) :
        /\ DrawTakes(gs, d.result)
              = Min(d.count, Len(gs.drawPile) + Max(0, Len(gs.discardPile) - 1))
        /\ DrawTakes(gs, d.result) = Min(d.count, getDrawableCount(gs))
        /\ DrawnFromPiles(gs, d.result)
        /\ \A seat \in PlayerIds(gs) \ {gs.currentPlayerIndex} :
              d.result.players[seat].hand = gs.players[seat].hand

\* a draw is asked for more cards than both piles can give and returns with
\* all of them: the draw pile ends empty and the discard pile at its top card
C28_Witness ==
    /\ Len(gs.drawPile) > 0
    /\ Len(gs.discardPile) > 1
    /\ \E d \in DrawsOf(gs) :
          /\ d.count > getDrawableCount(gs)
          /\ DrawTakes(gs, d.result) = getDrawableCount(gs)
          /\ d.result.drawPile = << >>
          /\ Len(d.result.discardPile) = 1

---------------------------------------------------------------------------
(* Turn order and turn counter *)

\* the seat the turn passes to: one step on, two when a skip is pending
SeatAfter(state) ==
    IF state.pendingEffects.skipNextPlayer
    THEN getNextPlayerIndex(state, getNextPlayerIndex(state, state.currentPlayerIndex))
    ELSE getNextPlayerIndex(state, state.currentPlayerIndex)

NextTurnAdvances(state) ==
    state.winner = NULL =>
        /\ nextTurn(state).currentPlayerIndex = SeatAfter(state)
        /\ ~nextTurn(state).pendingEffects.skipNextPlayer
        /\ nextTurn(state).turnNumber = state.turnNumber + 1

OnlyNextTurnCounts(state) ==
    \A t \in Transitions(state) :
        t.op # "nextTurn" => t.result.turnNumber = state.turnNumber

\* a step keeps the turn number or is a nextTurn that adds one to it
TurnNumberStep ==
    \/ gs'.turnNumber = gs.turnNumber
    \/ gs'.turnNumber = gs.turnNumber + 1 /\ gs' = nextTurn(gs)

\* C29: when no winner is set, nextTurn makes the active seat the seat one
\* step in play direction from the outgoing seat, or two steps if the skip
\* flag was set, clears the skip flag, and increases turnNumber by exactly 1;
\* no other transition changes turnNumber, so the turn counter never
\* decreases.
C29_TurnAdvances ==
    /\ [](NextTurnAdvances(gs) /\ OnlyNextTurnCounts(gs))
    /\ [][TurnNumberStep]_vars

\* three seats, no winner, a skip pending: the turn passes over one seat
C29_Witness ==
    /\ gs.winner = NULL
    /\ gs.pendingEffects.skipNextPlayer
    /\ gs.turnNumber > 0
    /\ PlayerCount(gs) = 3
    /\ nextTurn(gs).currentPlayerIndex
          = getNextPlayerIndex(gs, getNextPlayerIndex(gs, gs.currentPlayerIndex))
    /\ nextTurn(gs).currentPlayerIndex # getNextPlayerIndex(gs, gs.currentPlayerIndex)

---------------------------------------------------------------------------
(* Setup with the full deck: initializeGame on 52 cards and hands of 7 *)

FULL_SUITS == <<"hearts", "diamonds", "clubs", "spades">>

FULL_RANKS == <<"A", "2", "3", "4", "5", "6", "7", "8", "9", "10", "J", "Q", "K">>

INITIAL_HAND_SIZE == 7

\* for (const suit of SUITS) for (const rank of RANKS) deck.push({rank, suit})
createFullDeck ==
    [k \in 1..(Len(FULL_SUITS) * Len(FULL_RANKS)) |->
        Card(FULL_RANKS[((k - 1) % Len(FULL_RANKS)) + 1],
             FULL_SUITS[((k - 1) \div Len(FULL_RANKS)) + 1])]

\* the Fisher-Yates pass of shuffle: for (i = length - 1; i > 0; i--) swap,
\* the array written out as a sequence after each swap
RECURSIVE FisherYatesFull(_, _, _)
FisherYatesFull(arr, i, rng) ==
    IF Len(arr) <= 1 \/ i <= 0 THEN arr
    ELSE FisherYatesFull(SubSeq(Swap(arr, i, rng[i]), 1, Len(arr)), i - 1, rng)

createShuffledFullDeck(rng) ==
    FisherYatesFull(createFullDeck, Len(createFullDeck) - 1, rng)

\* a setup that lets the flipped card act as if it had been played
initializeFullGameActivatingFirstCard(playerCount, rng) ==
    LET deck == createShuffledFullDeck(rng)
        rest == SubSeq(deck, playerCount * INITIAL_HAND_SIZE + 1, Len(deck))
        firstCard == rest[Len(rest)]
    IN  [players |-> [i \in 0..(playerCount - 1) |->
                        NewPlayer({deck[k] : k \in (i * INITIAL_HAND_SIZE + 1)
                                                    ..((i + 1) * INITIAL_HAND_SIZE)})],
         currentPlayerIndex |-> 0,
         drawPile |-> SubSeq(rest, 1, Len(rest) - 1),
         discardPile |-> <<firstCard>>,
         chosenSuit |-> "null",
         pendingEffects |-> [forcedDrawCount |-> DeflectDrawValue(firstCard),
                             skipNextPlayer |-> firstCard.rank = "10"],
         turnPhase |-> "waiting",
         winner |-> NULL,
         lastPlayWasSpecial |-> isSpecialCard(firstCard),
         direction |-> "CW",
         responsePhase |-> "null",
         responseChainRank |-> "null",
         respondingPlayerIndex |-> NULL,
         sevenDispute |-> None,
         lastCardClaim |-> None,
         turnNumber |-> 0,
         jackResponse |-> None,
         aceResponse |-> None]

\* initializeGame as the code runs it, on 52 cards with hands of 7
initializeFullGame(playerCount, rng) ==
    dealGame(createShuffledFullDeck(rng), INITIAL_HAND_SIZE, playerCount)

\* the seat counts initializeGame accepts
SeatCounts == 2..4

\* number of distinct values the rng returns after its first call
SetupRngLevels == 2

\* the rng of a setup shuffle: the first call, which picks the card that ends
\* up last in the deck and is flipped, returns any index; the later calls
\* return the same value k / SetupRngLevels each
FullSetupRngs ==
    {[i \in 1..(Len(createFullDeck) - 1) |->
        IF i = Len(createFullDeck) - 1 THEN first
        ELSE (k * (i + 1)) \div SetupRngLevels] :
            first \in 0..(Len(createFullDeck) - 1), k \in 0..(SetupRngLevels - 1)}

SetupInit ==
    /\ \E playerCount \in SeatCounts :
          gs = initializeFullGame(playerCount, CHOOSE rng \in FullSetupRngs : TRUE)
    /\ steps = 0
    /\ turnStartSeat = 0
    /\ skipResolver = None
    /\ timer = None
    /\ room = None

\* a new game is set up for any seat count with any shuffle
InitializeGame ==
    /\ steps = 0
    /\ \E playerCount \in SeatCounts, rng \in FullSetupRngs :
          gs' = initializeFullGame(playerCount, rng)
    /\ steps' = 1
    /\ UNCHANGED <<turnStartSeat, skipResolver, timer, room>>

SetupSpec == SetupInit /\ [][InitializeGame]_vars

\* C30: for every seat count n in {2, 3, 4}, initializeGame(n) yields n hands
\* of exactly 7 cards, a discard pile of exactly 1 card, a draw pile of
\* 52 - 7n - 1 cards, pending effects {0, false}, no suit override and no
\* open sub-protocol, whatever the rank of the flipped card (a flipped 2, 5,
\* 10 or Ace activates nothing).
C30_SetupDealsSevenEach ==
    /\ PlayerCount(gs) \in {2, 3, 4}
    /\ PlayerIds(gs) = 0..(PlayerCount(gs) - 1)
    /\ \A seat \in PlayerIds(gs) : Cardinality(gs.players[seat].hand) = 7
    /\ Len(gs.discardPile) = 1
    /\ Len(gs.drawPile) = 52 - 7 * PlayerCount(gs) - 1
    /\ gs.pendingEffects = [forcedDrawCount |-> 0, skipNextPlayer |-> FALSE]
    /\ gs.chosenSuit = "null"
    /\ ~isInResponsePhase(gs) /\ gs.responsePhase = "null"
    /\ ~isInSevenDispute(gs)
    /\ ~isInJackResponse(gs) /\ ~isInAceResponse(gs)
    /\ gs.lastCardClaim = None

\* a game of four seats set up with a 2, 5, 10 or Ace flipped
C30_Witness ==
    /\ steps = 1
    /\ PlayerCount(gs) = 4
    /\ getTopCard(gs).rank \in {"2", "5", "10", "A"}
    /\ Len(gs.drawPile) = 23

---------------------------------------------------------------------------
(* The room's gate on incoming actions *)

PlainActionNames ==
    {"draw", "end_turn", "declare_last_card", "resolve_response", "seven_dispute_accept"}

CardActionNames ==
    {"deflect_response", "cancel_response", "seven_cancel_effect",
     "seven_cancel_last_card", "seven_dispute_play"}

\* the play_cards messages of a seat that isPlayLegal lets through
PlayMessages(state, playerIndex) ==
    {[action |-> "play_cards", cards |-> lp.cards,
      chosenSuit |-> lp.chosenSuit, activateEffect |-> act] :
        lp \in getLegalPlays(state, playerIndex), act \in ActivateChoices}

\* the message passes canPlayerAct, executeAction reports success and the
\* game state it stores differs from the one before
Applied(state, playerIndex, action, rng) ==
    /\ canPlayerAct(state, playerIndex)
    /\ executeAction(state, playerIndex, action, rng).success
    /\ executeAction(state, playerIndex, action, rng).gs # state

\* the sender is the seat the action belongs to and the card, if any, is one
\* the legality query of the invoked transition returns for that seat
Validated(state, playerIndex, action) ==
    LET name == action.action
        isResponder == isInResponsePhase(state) /\ state.respondingPlayerIndex = playerIndex
        isDisputeResponder ==
            isInSevenDispute(state) /\ state.sevenDispute[1].responderPlayerId = playerIndex
    IN  CASE name = "play_cards" ->
                /\ state.currentPlayerIndex = playerIndex
                /\ isPlayLegal(state, playerIndex,
                       [cards |-> action.cards, chosenSuit |-> action.chosenSuit,
                        activateEffect |-> action.activateEffect])
          [] name \in {"draw", "end_turn", "declare_last_card"} ->
                state.currentPlayerIndex = playerIndex
          [] name = "seven_cancel_last_card" ->
                /\ state.currentPlayerIndex = playerIndex
                /\ action.card \in getLegalSevenCancelsLastCard(state, playerIndex)
          [] name = "resolve_response" -> isResponder
          [] name \in {"deflect_response", "cancel_response"} ->
                isResponder /\ action.card \in getLegalDeflections(state)
          [] name = "seven_cancel_effect" ->
                isResponder /\ action.card \in getLegalSevenCancelsEffect(state, playerIndex)
          [] name = "seven_dispute_play" ->
                /\ isDisputeResponder
                /\ action.card \in getLegalSevenDisputePlays(state, playerIndex)
          [] name = "seven_dispute_accept" -> isDisputeResponder
          [] OTHER -> FALSE

\* C31: every action the room applies was validated for the sender's own
\* seat: a play, draw, end-turn, declaration or claim challenge comes from
\* the active seat, a resolve, deflect or effect-cancel from the chain
\* responder with a card that is legal for it, a counter-seven or accept from
\* the dispute responder; nothing else changes the game state.
C31_AcceptedActionsAreValidated ==
    \A playerIndex \in PlayerIds(gs) :
        /\ \A action \in PlayMessages(gs, playerIndex) :
              Applied(gs, playerIndex, action, << >>)
                  => Validated(gs, playerIndex, action)
        /\ \A name \in PlainActionNames, rng \in RoomDrawRngs(gs, playerIndex) :
              Applied(gs, playerIndex, PlainAction(name), rng)
                  => Validated(gs, playerIndex, PlainAction(name))
        /\ \A name \in CardActionNames, card \in Cards :
              Applied(gs, playerIndex, CardAction(name, card), << >>)
                  => Validated(gs, playerIndex, CardAction(name, card))

---------------------------------------------------------------------------
(* Rejected actions leave the game state alone *)

\* the card field of a message that carries none
MissingCard == [rank |-> "undefined", suit |-> "undefined"]

\* a transition that reads card.rank of a missing card raises; each does so
\* after its own early return
Throws(state, action) ==
    /\ action.action \in CardActionNames
    /\ action.card = MissingCard
    /\ CASE action.action \in {"deflect_response", "cancel_response", "seven_cancel_effect"} ->
                isInResponsePhase(state)
         [] action.action = "seven_cancel_last_card" -> state.lastCardClaim # None
         [] action.action = "seven_dispute_play" -> isInSevenDispute(state)

\* a handler that runs the action before it looks at the sender
handlePlayActionBeforeGate(state, playerIndex, action, rng) ==
    IF Throws(state, action) THEN [success |-> FALSE, gs |-> state]
    ELSE [success |-> canPlayerAct(state, playerIndex)
                        /\ executeAction(state, playerIndex, action, rng).success,
          gs |-> executeAction(state, playerIndex, action, rng).gs]

\* whether the room accepted the message and the game state it holds after
\* handling it: 'Not your turn', then executeAction with its catch
handlePlayAction(state, playerIndex, action, rng) ==
    IF ~canPlayerAct(state, playerIndex) THEN [success |-> FALSE, gs |-> state]
    ELSE IF Throws(state, action) THEN [success |-> FALSE, gs |-> state]
    ELSE executeAction(state, playerIndex, action, rng)

\* one play_cards message per card of the deck, legal or not
SingleCardMessages ==
    {[action |-> "play_cards", cards |-> <<card>>,
      chosenSuit |-> "undefined", activateEffect |-> act] :
        card \in Cards, act \in ActivateChoices}

RejectedUnchanged(state, playerIndex, action, rng) ==
    ~handlePlayAction(state, playerIndex, action, rng).success
        => handlePlayAction(state, playerIndex, action, rng).gs = state

Rejected(state, playerIndex, action) ==
    ~handlePlayAction(state, playerIndex, action, << >>).success

\* C32: whenever the room rejects an incoming action (sender not allowed to
\* act, illegal play, unknown action, exception inside a transition) the
\* game state it holds afterwards is the state it held before.
C32_RejectedActionLeavesState ==
    \A playerIndex \in PlayerIds(gs) :
        /\ \A action \in PlayMessages(gs, playerIndex) \cup SingleCardMessages :
              RejectedUnchanged(gs, playerIndex, action, << >>)
        /\ \A name \in PlainActionNames \cup {"unknown_action"},
              rng \in RoomDrawRngs(gs, playerIndex) :
              RejectedUnchanged(gs, playerIndex, PlainAction(name), rng)
        /\ \A name \in CardActionNames, card \in Cards \cup {MissingCard} :
              RejectedUnchanged(gs, playerIndex, CardAction(name, card), << >>)

\* a chain is open after some play, and the room rejects a message for each
\* of the four reasons: a seat that may not act, an illegal play and an
\* unknown action of the responder, and a deflection without a card
C32_Witness ==
    /\ isInResponsePhase(gs)
    /\ gs.turnNumber > 0
    /\ \E playerIndex \in PlayerIds(gs) :
          /\ ~canPlayerAct(gs, playerIndex)
          /\ Rejected(gs, playerIndex, PlainAction("draw"))
    /\ \E action \in SingleCardMessages :
          Rejected(gs, gs.respondingPlayerIndex, action)
    /\ Rejected(gs, gs.respondingPlayerIndex, PlainAction("unknown_action"))
    /\ Rejected(gs, gs.respondingPlayerIndex, CardAction("deflect_response", MissingCard))

---------------------------------------------------------------------------
(* The state sent to a participant *)

\* indexToPlayerId: the room's id of the participant in a seat
PlayerIdOf(index) == <<"player", index>>

\* the viewer of a projection is a seat, or NULL for a participant without one
Viewers(state) == PlayerIds(state) \cup {NULL}

\* the record built for a viewer, with the card lists of the seats in shown
ClientGameState(state, shown) ==
    [players |-> [i \in PlayerIds(state) |->
                    [id |-> PlayerIdOf(i),
                     cardCount |-> Cardinality(state.players[i].hand),
                     hand |-> IF i \in shown THEN Some(state.players[i].hand) ELSE None,
                     declaredLastCard |-> state.players[i].declaredLastCard,
                     lastCardPenalty |-> state.players[i].lastCardPenalty]],
     currentPlayerId |-> PlayerIdOf(state.currentPlayerIndex),
     turnPhase |-> state.turnPhase,
     topCard |-> getTopCard(state),
     discardPileCount |-> Len(state.discardPile),
     drawPileCount |-> Len(state.drawPile),
     effectiveSuit |-> getTargetSuit(state),
     pendingEffects |-> state.pendingEffects,
     direction |-> state.direction,
     responsePhase |-> state.responsePhase,
     responseChainRank |-> state.responseChainRank,
     respondingPlayerId |-> IF state.respondingPlayerIndex # NULL
                            THEN Some(PlayerIdOf(state.respondingPlayerIndex)) ELSE None,
     sevenDispute |-> state.sevenDispute,
     lastCardClaim |-> IF state.lastCardClaim # None
                       THEN Some([playerId |-> PlayerIdOf(state.lastCardClaim[1].playerId),
                                  turnNumberCreated |->
                                      state.lastCardClaim[1].turnNumberCreated])
                       ELSE None,
     jackResponse |-> IF state.jackResponse # None
                      THEN Some([jackPlayerId |->
                                     PlayerIdOf(state.jackResponse[1].jackPlayerId),
                                 responderPlayerId |->
                                     PlayerIdOf(state.jackResponse[1].responderPlayerId),
                                 jackSuit |-> state.jackResponse[1].jackSuit])
                      ELSE None,
     aceResponse |-> IF state.aceResponse # None
                     THEN Some([acePlayerId |->
                                    PlayerIdOf(state.aceResponse[1].acePlayerId),
                                responderPlayerId |->
                                    PlayerIdOf(state.aceResponse[1].responderPlayerId),
                                aceSuit |-> state.aceResponse[1].aceSuit,
                                chosenSuit |-> state.aceResponse[1].chosenSuit])
                     ELSE None,
     winnerId |-> IF state.winner # NULL THEN Some(PlayerIdOf(state.winner)) ELSE None,
     turnNumber |-> state.turnNumber]

\* a projection that leaves every hand in
toClientGameStateWithHands(state, viewingIndex) ==
    ClientGameState(state, PlayerIds(state))

\* hand: i === viewingIndex ? p.hand : undefined
toClientGameState(state, viewingIndex) ==
    ClientGameState(state, {viewingIndex})

\* the cards a viewer cannot see: the draw pile and the other seats' hands
HiddenFrom(state, viewer) ==
    Range(state.drawPile)
        \cup UNION {state.players[i].hand : i \in PlayerIds(state) \ {viewer}}

\* the states that differ from the given one only in what one other seat
\* holds (one of its cards exchanged for another hidden card, or none) and in
\* the order of the draw pile (its first card exchanged with another, or none)
HiddenVariants(state, viewer) ==
    UNION {
        {[state EXCEPT !.players[seat].hand = (@ \ {x[1]}) \cup {x[2]},
                       !.drawPile = Swap(state.drawPile, 0, j)] :
            x \in {y \in state.players[seat].hand \X HiddenFrom(state, viewer) :
                      y[2] \notin state.players[seat].hand \/ y[2] = y[1]},
            j \in IF Len(state.drawPile) = 0 THEN {0}
                  ELSE 0..(Len(state.drawPile) - 1)} :
        seat \in PlayerIds(state) \ {viewer}}

OwnHandOnly(state, viewer) ==
    \A i \in PlayerIds(state) :
        /\ toClientGameState(state, viewer).players[i].cardCount
              = Cardinality(state.players[i].hand)
        /\ toClientGameState(state, viewer).players[i].hand
              = IF i = viewer THEN Some(state.players[i].hand) ELSE None

\* C33: for every viewer the projected state holds the card list of the
\* viewer's own hand only and the size of every other hand, and two game
\* states that differ only in the contents of other seats' hands and in the
\* order of the draw pile have the same projection for that viewer.
C33_ProjectionHidesOtherHands ==
    \A viewer \in Viewers(gs) :
        /\ OwnHandOnly(gs, viewer)
        /\ LET sent == toClientGameState(gs, viewer)
           IN  \A other \in HiddenVariants(gs, viewer) :
                   toClientGameState(other, viewer) = sent

\* after some play, with three seats or more, a seat's projection is the
\* same for a state in which another seat holds different cards
C33_Witness ==
    /\ gs.turnNumber > 0
    /\ PlayerCount(gs) >= 3
    /\ \E viewer \in PlayerIds(gs) :
          /\ gs.players[viewer].hand # {}
          /\ \E other \in HiddenVariants(gs, viewer) :
                /\ \E i \in PlayerIds(gs) :
                      /\ other.players[i].hand # gs.players[i].hand
                      /\ Cardinality(other.players[i].hand)
                            = Cardinality(gs.players[i].hand)
                /\ other.drawPile # gs.drawPile
                /\ toClientGameState(other, viewer) = toClientGameState(gs, viewer)

---------------------------------------------------------------------------
(* The room with participants that disconnect and reconnect, AI seats and  *)
(* a clock.  The grace period is measured on the clock; the turn timer and *)
(* the delay of an AI action run out at any moment while they are pending. *)

\* RECONNECTION_GRACE_PERIOD_MS, in ticks of the model's clock (one tick is
\* 15 s of the 30 s in the code)
RECONNECTION_GRACE_PERIOD == 2

\* the clock stops here
MaxTime == 2

\* number of state-changing game actions handled from start
ConnMaxSteps == 2

\* number of connections closed from start
MaxCloses == 2

RoomPlayer(isAI) ==
    [isAI |-> isAI, isConnected |-> TRUE, disconnectedAt |-> NULL, aiTakeover |-> FALSE]

\* the seat that has to act: the responder of an open chain or dispute, else
\* the current seat
ActingIndex(state) ==
    IF isInResponsePhase(state) THEN state.respondingPlayerIndex
    ELSE IF isInSevenDispute(state) THEN state.sevenDispute[1].responderPlayerId
    ELSE IF isInJackResponse(state) THEN state.jackResponse[1].responderPlayerId
    ELSE IF isInAceResponse(state) THEN state.aceResponse[1].responderPlayerId
    ELSE state.currentPlayerIndex

\* the pending executeAITurn callbacks after checkAndExecuteAITurn
checkAndExecuteAITurn(state, players, aiTurns) ==
    IF state.winner # NULL THEN aiTurns
    ELSE IF ~players[ActingIndex(state)].isAI /\ ~players[ActingIndex(state)].aiTakeover
    THEN aiTurns
    ELSE aiTurns \cup {ActingIndex(state)}

\* startTurnTimer with the early return for AI, taken-over and disconnected seats
startTurnTimerFor(state, players) ==
    IF state.winner # NULL THEN None
    ELSE IF \/ players[ActingIndex(state)].isAI
            \/ players[ActingIndex(state)].aiTakeover
            \/ ~players[ActingIndex(state)].isConnected
    THEN None
    ELSE startTurnTimer(state)

\* handleStartGame: seat 0 is the host, a connected human; every other seat
\* is a connected human or an AI
ConnectionInit ==
    /\ \E playerCount \in 2..MaxPlayers, rng \in SetupRngs :
        /\ playerCount * HandSize + 1 <= Len(createDeck)
        /\ gs = confirmHandoff(initializeGame(playerCount, rng))
    /\ steps = 0
    /\ turnStartSeat = 0
    /\ skipResolver = None
    /\ \E ais \in SUBSET (PlayerIds(gs) \ {0}) :
          LET players == [i \in PlayerIds(gs) |-> RoomPlayer(i \in ais)]
          IN  /\ room = Some([now |-> 0,
                              players |-> players,
                              reconnections |-> {},
                              closes |-> 0,
                              aiTurns |-> checkAndExecuteAITurn(gs, players, {})])
              /\ timer = startTurnTimerFor(gs, players)

Message(name, cards, chosenSuit, activateEffect, card) ==
    [action |-> name, cards |-> cards, chosenSuit |-> chosenSuit,
     activateEffect |-> activateEffect, card |-> card]

PlainMessage(name) == Message(name, << >>, "undefined", "undefined", MissingCard)

CardMessage(name, card) == Message(name, << >>, "undefined", "undefined", card)

\* what the client of the seat that has to act offers: in an open turn a
\* legal play or a draw, in a chain resolve, a legal deflection or a legal
\* seven, in a dispute accept or a seven
OfferedMessages(state) ==
    IF state.winner # NULL THEN {}
    ELSE IF isInResponsePhase(state)
    THEN {PlainMessage("resolve_response")}
            \cup {CardMessage("deflect_response", card) :
                    card \in getLegalDeflections(state)}
            \cup {CardMessage("seven_cancel_effect", card) :
                    card \in getLegalSevenCancelsEffect(state, ActingIndex(state))}
    ELSE IF isInSevenDispute(state)
    THEN {PlainMessage("seven_dispute_accept")}
            \cup {CardMessage("seven_dispute_play", card) :
                    card \in SevenDisputePlayArgs(state)}
    ELSE {PlainMessage("draw")}
            \cup {Message("play_cards", lp.cards, lp.chosenSuit, act, MissingCard) :
                    lp \in getLegalPlays(state, ActingIndex(state)),
                    act \in {"true", "false"}}

\* the game state and history after executeAction stored its result
GameStep(result, name) ==
    /\ gs' = result.gs
    /\ steps' = IF result.gs = gs THEN steps ELSE steps + 1
    /\ History(name = "resolve_response", result.gs)

\* handlePlayAction for a message of the connected participant whose seat
\* has to act: the timer is stopped, the action runs, the AI is checked and
\* the timer started for the next seat to act
ClientSends ==
    /\ room # None
    /\ steps < ConnMaxSteps
    /\ \E action \in OfferedMessages(gs), rng \in RoomDrawRngs(gs, ActingIndex(gs)) :
          LET playerIndex == ActingIndex(gs)
              result == executeAction(gs, playerIndex, action, rng)
          IN  /\ ~room[1].players[playerIndex].isAI
              /\ room[1].players[playerIndex].isConnected
              /\ canPlayerAct(gs, playerIndex)
              /\ GameStep(result, action.action)
              /\ timer' = startTurnTimerFor(result.gs, room[1].players)
              /\ room' = IF result.success
                         THEN Some([room[1] EXCEPT !.aiTurns =
                                  checkAndExecuteAITurn(result.gs, room[1].players, @)])
                         ELSE room

\* handleTimerTimeout: the timer is stopped; while there is no winner the
\* auto-action runs for the seat the timer was started for, then the AI is
\* checked and the timer started for the next seat to act
TimerExpires ==
    /\ room # None
    /\ timer # None
    /\ steps < ConnMaxSteps
    /\ IF gs.winner # NULL \/ TimeoutAction(gs, timer[1].phase) = "none"
       THEN /\ timer' = None
            /\ UNCHANGED <<gs, steps, turnStartSeat, skipResolver, room>>
       ELSE \E rng \in RoomDrawRngs(gs, timer[1].playerIndex) :
              LET name == TimeoutAction(gs, timer[1].phase)
                  result == executeAction(gs, timer[1].playerIndex, PlainAction(name), rng)
              IN  /\ GameStep(result, name)
                  /\ timer' = IF result.success
                              THEN startTurnTimerFor(result.gs, room[1].players)
                              ELSE None
                  /\ room' = IF result.success
                             THEN Some([room[1] EXCEPT !.aiTurns =
                                      checkAndExecuteAITurn(result.gs, room[1].players, @)])
                             ELSE room

\* getAIResponseAction / getAINormalAction: resolve a chain, accept a
\* dispute, draw when a draw is owed or nothing can be played, else play a
\* legal single card if there is one (any of them here, the first of the
\* list in the code), else a legal play
AIActions(state, playerIndex) ==
    IF isInResponsePhase(state) /\ state.respondingPlayerIndex = playerIndex
    THEN {PlainMessage("resolve_response")}
    ELSE IF isInSevenDispute(state) /\ state.sevenDispute[1].responderPlayerId = playerIndex
    THEN {PlainMessage("seven_dispute_accept")}
    ELSE IF state.currentPlayerIndex # playerIndex THEN {}
    ELSE IF DrawIsForced(state, playerIndex) \/ getLegalPlays(state, playerIndex) = {}
    THEN {PlainMessage("draw")}
    ELSE LET plays == getLegalPlays(state, playerIndex)
             singles == {lp \in plays : Len(lp.cards) = 1}
         IN  {Message("play_cards", lp.cards, lp.chosenSuit, "undefined", MissingCard) :
                 lp \in IF singles # {} THEN singles ELSE plays}

\* executeAITurn, run by the callback checkAndExecuteAITurn scheduled: the
\* action is executed and, on success without a winner, the AI is checked
\* again; the turn timer is neither stopped nor started
ExecuteAITurn ==
    /\ room # None
    /\ steps < ConnMaxSteps
    /\ \E playerIndex \in room[1].aiTurns :
          LET pending == room[1].aiTurns \ {playerIndex}
          IN  IF gs.winner # NULL \/ AIActions(gs, playerIndex) = {}
              THEN /\ room' = Some([room[1] EXCEPT !.aiTurns = pending])
                   /\ UNCHANGED <<gs, steps, turnStartSeat, skipResolver, timer>>
              ELSE \E action \in AIActions(gs, playerIndex),
                      rng \in RoomDrawRngs(gs, playerIndex) :
                      LET result == executeAction(gs, playerIndex, action, rng)
                      IN  /\ GameStep(result, action.action)
                          /\ timer' = IF result.gs.winner # NULL THEN None ELSE timer
                          /\ room' = Some([room[1] EXCEPT !.aiTurns =
                                  IF result.success
                                  THEN checkAndExecuteAITurn(result.gs, room[1].players,
                                                             pending)
                                  ELSE pending])

\* onClose during the game: the participant is marked disconnected and the
\* reconnection timeout is set
OnClose ==
    /\ room # None
    /\ room[1].closes < MaxCloses
    /\ \E playerIndex \in PlayerIds(gs) :
          /\ ~room[1].players[playerIndex].isAI
          /\ room[1].players[playerIndex].isConnected
          /\ room' = Some([room[1] EXCEPT
                !.closes = @ + 1,
                !.players[playerIndex].isConnected = FALSE,
                !.players[playerIndex].disconnectedAt = room[1].now,
                !.reconnections = @ \cup
                    {[playerIndex |-> playerIndex,
                      due |-> room[1].now + RECONNECTION_GRACE_PERIOD]}])
    /\ UNCHANGED <<gs, steps, turnStartSeat, skipResolver, timer>>

\* handleJoin of a participant the room knows: reconnection
HandleJoin ==
    /\ room # None
    /\ \E playerIndex \in PlayerIds(gs) :
          /\ ~room[1].players[playerIndex].isAI
          /\ ~room[1].players[playerIndex].isConnected
          /\ room' = Some([room[1] EXCEPT
                !.players[playerIndex].isConnected = TRUE,
                !.players[playerIndex].disconnectedAt = NULL,
                !.players[playerIndex].aiTakeover = FALSE])
    /\ UNCHANGED <<gs, steps, turnStartSeat, skipResolver, timer>>

\* the callback of startReconnectionTimer runs when its delay is over:
\* handleAITakeover for a participant that is disconnected and not taken over
ReconnectionTimeout ==
    /\ room # None
    /\ \E timeout \in room[1].reconnections :
          LET player == room[1].players[timeout.playerIndex]
              takenOver == [room[1].players EXCEPT ![timeout.playerIndex].aiTakeover = TRUE]
          IN  /\ timeout.due <= room[1].now
              /\ room' = IF ~player.isConnected /\ ~player.aiTakeover
                         THEN Some([room[1] EXCEPT
                                !.reconnections = @ \ {timeout},
                                !.players = takenOver,
                                !.aiTurns = checkAndExecuteAITurn(gs, takenOver, @)])
                         ELSE Some([room[1] EXCEPT !.reconnections = @ \ {timeout}])
    /\ UNCHANGED <<gs, steps, turnStartSeat, skipResolver, timer>>

\* time passes once every reconnection timeout that is due has run
Tick ==
    /\ room # None
    /\ room[1].now < MaxTime
    /\ \A timeout \in room[1].reconnections : timeout.due > room[1].now
    /\ room' = Some([room[1] EXCEPT !.now = @ + 1])
    /\ UNCHANGED <<gs, steps, turnStartSeat, skipResolver, timer>>

ConnectionNext ==
    \/ ClientSends
    \/ TimerExpires
    \/ ExecuteAITurn
    \/ OnClose
    \/ HandleJoin
    \/ ReconnectionTimeout
    \/ Tick

ConnectionSpec == ConnectionInit /\ [][ConnectionNext]_vars

---------------------------------------------------------------------------
(* AI takeover after the grace period *)

TakenOverSeats == {i \in PlayerIds(gs) : room[1].players[i].aiTakeover}

\* C34: a seat is taken over by the AI only if its participant has been
\* disconnected without interruption for at least the grace period since
\* the most recent disconnect: a seat that is taken over is disconnected and
\* its disconnectedAt lies a full grace period back, so a reconnection
\* inside the grace period cancels the takeover the earlier disconnect
\* scheduled.
C34_TakeoverOnlyAfterGracePeriod ==
    \A i \in TakenOverSeats :
        /\ ~room[1].players[i].isConnected
        /\ room[1].now - room[1].players[i].disconnectedAt >= RECONNECTION_GRACE_PERIOD

---------------------------------------------------------------------------
(* Card conservation in the room *)

EachCardOnce(state) ==
    /\ Range(state.drawPile) \cup Range(state.discardPile) \cup HandCards(state) = Cards
    /\ Len(state.drawPile) + Len(state.discardPile)
          + SumOfHandSizes(state, PlayerIds(state)) = Len(createDeck)

\* the cards a step puts on top of the discard pile
Discarded(old, new) ==
    IF Len(new.discardPile) > Len(old.discardPile)
          /\ SubSeq(new.discardPile, 1, Len(old.discardPile)) = old.discardPile
    THEN {new.discardPile[k] : k \in (Len(old.discardPile) + 1)..Len(new.discardPile)}
    ELSE {}

\* the cards put on the discard pile were all held by one seat before the
\* step and are held by it no longer
DiscardedFromAHand ==
    Discarded(gs, gs') # {} =>
        \E seat \in PlayerIds(gs) :
            /\ Discarded(gs, gs') \subseteq gs.players[seat].hand
            /\ Discarded(gs, gs') \cap gs'.players[seat].hand = {}

\* C35: after any sequence of client and timer actions the room accepted,
\* the game state holds every card of the deck exactly once across the draw
\* pile, the discard pile and the hands, and every card that enters the
\* discard pile was removed from the hand of the participant whose action
\* put it there.
C35_RoomKeepsEveryCardOnce ==
    []EachCardOnce(gs) /\ [][DiscardedFromAHand]_vars

---------------------------------------------------------------------------
(* A draw that is owed stays with the seat that owes it *)

\* the current seat is in phase must-draw with a forced-draw total pending
\* or its penalty flag set
OwesDraw(state) ==
    /\ state.winner = NULL
    /\ state.turnPhase = "must-draw"
    /\ \/ state.pendingEffects.forcedDrawCount > 0
       \/ state.players[state.currentPlayerIndex].lastCardPenalty

\* the seat that was current took cards into its hand in this step, or the
\* piles had none to give
CurrentSeatDrew ==
    \/ /\ gs.players[gs.currentPlayerIndex].hand
            \subseteq gs'.players[gs.currentPlayerIndex].hand
       /\ gs'.players[gs.currentPlayerIndex].hand
            # gs.players[gs.currentPlayerIndex].hand
    \/ getDrawableCount(gs) = 0

\* the turn leaves a seat that owes a draw only in a step in which it draws
TurnWaitsForDraw ==
    (OwesDraw(gs) /\ gs'.turnNumber # gs.turnNumber) => CurrentSeatDrew

\* a forced-draw total owed by one seat is not pending for another seat
\* after the step
TotalStaysWithSeat ==
    (/\ OwesDraw(gs)
     /\ gs.pendingEffects.forcedDrawCount > 0
     /\ gs'.currentPlayerIndex # gs.currentPlayerIndex)
        => gs'.pendingEffects.forcedDrawCount = 0

\* C36: a seat that owes a draw (phase must-draw because of a pending
\* forced-draw total or its penalty flag) cannot pass the obligation on: the
\* turn does not advance past that seat until that seat has drawn, and a
\* pending forced-draw total is never handed to another seat.
C36_OwedDrawIsNotPassedOn ==
    [][TurnWaitsForDraw /\ TotalStaysWithSeat]_vars

---------------------------------------------------------------------------
(* A default action is pending for the seat that has to act *)

\* something is set to act for the seat: the turn or response timer runs for
\* it, an executeAITurn callback is scheduled for it, or it is disconnected
\* and a reconnection timeout is pending for it
PendingDefaultAction(state, seat) ==
    \/ timer # None /\ timer[1].playerIndex = seat
    \/ seat \in room[1].aiTurns
    \/ /\ ~room[1].players[seat].isConnected
       /\ \E timeout \in room[1].reconnections : timeout.playerIndex = seat

\* C37: while the game is in progress with no winner, the seat that must act
\* next always has a pending default action: a running turn or response
\* timer if it is a connected human, a scheduled AI action if it is an AI or
\* taken-over seat, or a pending grace-period takeover if it is
\* disconnected.
C37_ActingSeatHasDefaultAction ==
    gs.winner = NULL => PendingDefaultAction(gs, ActingIndex(gs))

---------------------------------------------------------------------------
(* The table dealt from decks with four sevens *)

\* the largest table the lobby seats
MaxSeats == 4

\* a shuffled deck whose deal puts the four 2s and the four sevens in the
\* hands of three seats
ChainDeck ==
    << Card("2", "hearts"), Card("2", "spades"), Card("7", "diamonds"),
       Card("2", "clubs"), Card("7", "hearts"), Card("7", "spades"),
       Card("2", "diamonds"), Card("7", "clubs"), Card("3", "hearts"),
       Card("3", "clubs"), Card("10", "hearts"), Card("5", "clubs"),
       Card("5", "hearts"), Card("A", "hearts") >>

DisputeTableInit ==
    /\ \E playerCount \in 2..MaxSeats, deck \in {DisputeDeck, ChainDeck} :
        /\ playerCount * HandSize + 1 <= Len(deck)
        /\ gs = confirmHandoff(dealGame(deck, HandSize, playerCount))
    /\ steps = 0
    /\ turnStartSeat = 0
    /\ skipResolver = None
    /\ timer = startTurnTimer(gs)
    /\ room = None

DisputeTableSpec == DisputeTableInit /\ [][TableNext]_vars

---------------------------------------------------------------------------
(* Who takes a reinstated effect *)

\* the seat whose 2, 5 or 10 opened the contested chain: a chain and the
\* dispute that follows it run inside the turn of the seat that played, so it
\* is the current seat while the dispute is open
OriginalAttacker(state) == state.currentPlayerIndex

\* the seat the snapshot names as responsible
TakesEffectResponsible(state) ==
    state.sevenDispute[1].effectSnapshot[1].responsiblePlayerId

\* the seat that has to take the draw or skip after the accept
TakesEffect(state) == applySevenDisputeAccept(state).currentPlayerIndex

RECURSIVE SeatsOn(_, _, _)
SeatsOn(state, seat, n) ==
    IF n = 0 THEN seat ELSE SeatsOn(state, getNextPlayerIndex(state, seat), n - 1)

\* the accept of an uncancelled effect dispute puts the effect on the
\* dispute's responder
ResponderTakesEffect(state) ==
    (EffectDisputeOpen(state) /\ ~state.sevenDispute[1].cancelled)
        => TakesEffect(state) = state.sevenDispute[1].responderPlayerId

---------------------------------------------------------------------------
(* When the missed-declaration flag is set *)

\* the current seat is at the start of its turn: the hand-off has been
\* confirmed and the seat has neither played nor drawn (applyPlay and
\* applyDraw both leave phase can-end), and no play of this turn was special
AtTurnStart(state) ==
    /\ TurnIsOpen(state)
    /\ state.turnPhase \in {"playing", "must-draw"}
    /\ ~state.lastPlayWasSpecial
    /\ turnStartSeat = state.currentPlayerIndex

\* the states in which the current seat's turn has ended without a play:
\* it sent end_turn at once, or it sent draw (the room ends the turn after
\* every draw)
EndedWithoutPlaying(state) ==
    LET seat == state.currentPlayerIndex
    IN  {executeAction(state, seat, PlainAction("end_turn"), << >>).gs}
            \cup {executeAction(state, seat, PlainAction("draw"), rng).gs :
                      rng \in RoomDrawRngs(state, seat)}

\* C39: lastCardPenalty is set only at the end of a turn in which the seat's
\* own play reduced its hand to exactly one card: a seat that holds one card
\* at the start of its turn, without the flag, and ends the turn without
\* playing, still holding one card, does not have the flag at the turn's end.
C39_PenaltyOnlyAfterOwnPlay ==
    LET seat == gs.currentPlayerIndex
    IN  (/\ AtTurnStart(gs)
         /\ Cardinality(gs.players[seat].hand) = 1
         /\ ~gs.players[seat].lastCardPenalty)
            => \A s \in EndedWithoutPlaying(gs) :
                  Cardinality(s.players[seat].hand) = 1
                      => ~s.players[seat].lastCardPenalty


---------------------------------------------------------------------------
(* How long a chain and a dispute can go on *)

\* the full deck holds one card of each rank per suit
CardsPerRank == Cardinality(AllSuits)

\* the chains a play of the active seat opens
ChainsOpenedFrom(state) ==
    {played \in {applyPlay(state, play) : play \in PlayArgs(state)} :
        isInResponsePhase(played)}

\* the states k deflections later, each played by the responder of the moment
RECURSIVE AfterDeflections(_, _)
AfterDeflections(states, k) ==
    IF k = 0 THEN states
    ELSE AfterDeflections(
            UNION {{applyDeflect(s, card) : card \in getLegalDeflections(s)} :
                        s \in states},
            k - 1)

\* the states one responder move other than resolve and accept later: a
\* deflection, a cancelling seven or a counter-seven
ResponderMoves(state) ==
    {applyDeflect(state, card) : card \in getLegalDeflections(state)}
    \cup (IF isInResponsePhase(state)
          THEN {applySevenCancelEffect(state, card) :
                  card \in getLegalSevenCancelsEffect(state, state.respondingPlayerIndex)}
          ELSE {})
    \cup {applySevenDisputePlay(state, card) : card \in SevenDisputePlayArgs(state)}

RECURSIVE AfterResponderMoves(_, _)
AfterResponderMoves(states, k) ==
    IF k = 0 THEN states
    ELSE AfterResponderMoves(UNION {ResponderMoves(s) : s \in states}, k - 1)

\* C40: every response chain and every seven dispute ends after finitely
\* many responder moves taken from the legal sets: no chain admits a fourth
\* deflection and no dispute a fourth counter-seven, and a chain with the
\* dispute it may turn into admits at most 3 + 1 + 3 responder moves other
\* than resolve and accept.
C40_ChainsAndDisputesEnd ==
    /\ \A opened \in ChainsOpenedFrom(gs) :
          /\ AfterDeflections({opened}, CardsPerRank) = {}
          /\ AfterResponderMoves({opened}, 2 * CardsPerRank) = {}
    /\ \A opened \in DisputesOpenedFrom(gs) :
          AfterCounterSevens({opened}, CardsPerRank) = {}

\* three seats hold the four 2s and the four sevens and the first has opened
\* a chain with a 2: the chain can be deflected three times, and answered
\* by a seven it can be countered three times, each time staying open with
\* nothing left to answer with
C40_Witness ==
    /\ PlayerCount(gs) = 3
    /\ isInResponsePhase(gs)
    /\ gs.responseChainRank = "2"
    /\ \E s \in AfterDeflections({gs}, CardsPerRank - 1) :
          isInResponsePhase(s) /\ getLegalDeflections(s) = {}
    /\ \E disputed \in DisputesOpenedFrom(gs) :
          \E s \in AfterCounterSevens({disputed}, CardsPerRank - 1) :
              isInSevenDispute(s) /\ SevenDisputePlayArgs(s) = {}
=============================================================================
